---- MODULE Spec2Model ----
(***************************************************************************)
(* Car wash bay occupancy backend: the bay tracker (bay_tracker.py), the   *)
(* RTSP stream processor (simple_stream_processor.py) and the callers in   *)
(* simple_app.py, as state machines.                                        *)
(*                                                                         *)
(* Time is the integer `now` (seconds); datetime.now() reads it.  An       *)
(* optional timestamp is None or Some(t).                                  *)
(***************************************************************************)
EXTENDS Integers, Sequences, FiniteSets, TLC

(***************************************************************************)
(* Configuration (config.py, StatusConfig defaults).                       *)
(***************************************************************************)
available_to_inuse_threshold == 2
inuse_to_available_threshold == 8
connection_grace_period == 10
frame_timeout == 30

(***************************************************************************)
(* Configuration (config.py, RTSPConfig defaults).                         *)
(***************************************************************************)
max_reconnect_attempts == 10
base_reconnect_interval == 2
max_reconnect_interval == 60

\* Optional timestamps: Python's None, or a datetime
None == <<>>
Some(t) == <<t>>

(***************************************************************************)
(* Bounds of the model.                                                    *)
(***************************************************************************)
\* the clock stops advancing at MaxTime
MaxTime == 20
\* seconds the clock advances between two observations of it
TickStep == 10
\* an update that would push a detection counter above MaxCount is not taken
MaxCount == 8
\* reconnect_attempts is counted up to AttemptsCap and stays there: the
\* program only compares it with max_reconnect_attempts
AttemptsCap == 12
\* total_reconnects is counted up to TotalCap and stays there
TotalCap == 3
\* frames_processed and frames_failed are counted up to FramesCap and stay there
FramesCap == 2
\* worker threads one stream processor can have in the model
MaxWorkers == 1
\* worker threads of a stream processor that is stopped and started again
MaxThreads == 2
\* bays, each with its stream processor, of the program as a whole
AppBays == 2
\* classifier results a worker produces are counted up to MaxResults
MaxResults == 2
\* the record of the results applied to a tracker bay holds MaxApplied entries
MaxApplied == 2

\* the bay_count argument the tracker is constructed with, line 33:
\* BayTracker(bay_count=1).  update_bay_status, set_bay_out_of_service and
\* get_bay_status read and write bays[bay_id] only
BayCount == 1

\* BayStatus enum values
AVAILABLE == "available"
IN_USE == "inUse"
OUT_OF_SERVICE == "outOfService"
CONNECTION_ERROR == "connectionError"

BayStatus == {AVAILABLE, IN_USE, OUT_OF_SERVICE, CONNECTION_ERROR}

\* detection_confidence values fed by the callers (0.0 and 1.0)
Confidences == {0, 1}

VARIABLES
    bay_count,   \* BayTracker.bay_count
    bays,        \* BayTracker.bays: bay id -> bay record
    lock,        \* BayTracker.lock: "free" or the thread holding it
    pc,          \* where the HTTP handler thread stands
    acc,         \* the list get_all_bay_statuses has built so far
    now,         \* the wall clock
    last_call,   \* the most recent BayTracker call: its arguments, the time
                 \* it ran at, the status it found, and what it returned
    fed,         \* per bay: how many detected=true (.detected) and how many
                 \* detected=false (.empty) updates in a row were just fed
                 \* over a healthy connection outside the grace period
    writer       \* per bay: the call that last wrote the bay's record

trackerVars == <<bay_count, bays, lock, pc, acc, last_call, fed, writer>>

VARIABLES
    sp,          \* the fields of one SimpleRTSPStreamProcessor
    wpc,         \* per worker thread: where it stands in process_stream
    site,        \* per worker thread: which reconnect() call of process_stream
                 \* it is in (1: line 265, 2: line 275)
    delay,       \* per worker thread: the backoff delay, before the jitter,
                 \* its reconnect() is sleeping; 0 when it is not sleeping
    mpc,         \* where the thread calling start() and stop() stands
    camera       \* whether the camera answers: "up" or "down"

streamVars == <<sp, wpc, site, delay, mpc, camera>>

VARIABLES
    has_sigalrm, \* hasattr(signal, 'SIGALRM') on the platform the program runs on
    plock,       \* per bay: the processor's lock, "free" or "worker"
    pview,       \* per bay: the processor fields get_status() copies
    produced,    \* per bay: how many classifier results the worker has produced
    applied,     \* per bay: the numbers of the results applied to the tracker
    upc,         \* where the update_bay_statuses thread stands
    ubay,        \* the bay its for loop of line 149 is at
    statuses,    \* its dict `statuses` of the current tick
    hlock,       \* HealthMonitor.lock: "free" or the thread holding it
    hpc,         \* per thread that reads the health: where it stands
    bay_healths, \* HealthMonitor.bay_healths
    system_health \* HealthMonitor.system_health

appVars == <<has_sigalrm, plock, pview, produced, applied, upc, ubay, statuses,
             hlock, hpc, bay_healths, system_health>>

VARIABLES
    env,         \* the environment variables read by config.py
    config,      \* config.config, the SystemConfig instance
    boot,        \* how far the start of the program has come
    thresholds   \* the thresholds BayTracker.__init__ copied from the config

cfgVars == <<env, config, boot, thresholds>>

\* the stream processor runs without touching the tracker, the supervisor,
\* the health monitor or the configuration
TrackerIdle ==
    /\ UNCHANGED <<bay_count, bays, lock, pc, acc, last_call, fed, writer, now>>
    /\ UNCHANGED <<appVars, cfgVars>>

vars == <<bay_count, bays, lock, pc, acc, now, last_call, fed, writer,
          sp, wpc, site, delay, mpc, camera, appVars, cfgVars>>

BayIds == 1..bay_count

\* BayTracker.__init__: the record of one bay at construction time t
InitBay(t) ==
    [ status |-> AVAILABLE,
      last_updated |-> t,
      consecutive_detections |-> 0,
      consecutive_non_detections |-> 0,
      last_frame_time |-> None,
      detection_confidence |-> 0,
      is_connected |-> FALSE,
      last_connection_time |-> None,
      last_disconnection_time |-> None,
      connection_recovery_pending |-> FALSE ]

NoResult == <<>>

\* a call as last_call records it; flag is the call's is_connected or
\* out_of_service argument
Call(op, bay_id, detected, flag, prev_status, result) ==
    [ op |-> op, bay |-> bay_id, vehicle_detected |-> detected, flag |-> flag,
      time |-> now, prev_status |-> prev_status, result |-> result,
      repeat |-> FALSE ]

\* lines 70-72, 191-193 and 223-225 of bay_tracker.py, lines 339 and 354 of
\* simple_app.py: what a call naming an unknown bay gets, the error
\* "Invalid bay ID" (logged by the tracker, sent with status 400 by the
\* handlers)
Rejected == <<"Invalid bay ID">>

\* the previous status recorded for a call that names no bay
NoStatus == "none"

\* bay ids outside the registry that a caller can name
InvalidIds == {0, bay_count + 1}

\* the bay ids a caller can name
RequestIds == BayIds \cup InvalidIds

\* initialize_system, lines 72-79: one processor per key of
\* config.rtsp_urls, which has the keys 1..bay_count (config.py, lines 64
\* and 93-98)
stream_processors == 1..bay_count

(***************************************************************************)
(* update_bay_status, step by step.                                        *)
(***************************************************************************)

\* lines 78-87: store is_connected, the frame time if given, the confidence
StoreSample(bay, is_connected, last_frame_time, detection_confidence) ==
    [ bay EXCEPT
        !.is_connected = is_connected,
        !.last_frame_time = IF last_frame_time # None THEN last_frame_time ELSE @,
        !.detection_confidence = detection_confidence ]

\* TrackConnection that stamps every connected update
TrackConnection_StampsAlways(bay, was_connected, is_connected, current_time) ==
    IF is_connected
    THEN [ bay EXCEPT !.last_connection_time = Some(current_time),
                      !.connection_recovery_pending = TRUE ]
    ELSE IF was_connected
    THEN [ bay EXCEPT !.last_disconnection_time = Some(current_time),
                      !.connection_recovery_pending = FALSE ]
    ELSE bay

\* TrackConnection that leaves the recovery pending when the connection is
\* lost
TrackConnection_KeepsPending(bay, was_connected, is_connected, current_time) ==
    IF is_connected /\ ~was_connected
    THEN [ bay EXCEPT !.last_connection_time = Some(current_time),
                      !.connection_recovery_pending = TRUE ]
    ELSE IF ~is_connected /\ was_connected
    THEN [ bay EXCEPT !.last_disconnection_time = Some(current_time) ]
    ELSE bay

\* lines 89-100: connection state changes
TrackConnection(bay, was_connected, is_connected, current_time) ==
    IF is_connected /\ ~was_connected
    THEN [ bay EXCEPT !.last_connection_time = Some(current_time),
                      !.connection_recovery_pending = TRUE ]
    ELSE IF ~is_connected /\ was_connected
    THEN [ bay EXCEPT !.last_disconnection_time = Some(current_time),
                      !.connection_recovery_pending = FALSE ]
    ELSE bay

\* MarkConnectionError that spares a bay an operator took out of service
MarkConnectionError_SparesOutOfService(bay, current_time) ==
    IF bay.status \notin {CONNECTION_ERROR, OUT_OF_SERVICE}
    THEN [ bay EXCEPT !.status = CONNECTION_ERROR, !.last_updated = current_time ]
    ELSE bay

\* MarkConnectionError that also clears the detection counters
MarkConnectionError_ClearsCounters(bay, current_time) ==
    [ bay EXCEPT !.status = CONNECTION_ERROR,
                 !.last_updated = IF bay.status # CONNECTION_ERROR THEN current_time ELSE @,
                 !.consecutive_detections = 0,
                 !.consecutive_non_detections = 0 ]

\* MarkConnectionError that leaves a bay that is IN_USE as it is
MarkConnectionError_SparesInUse(bay, current_time) ==
    IF bay.status \notin {CONNECTION_ERROR, IN_USE}
    THEN [ bay EXCEPT !.status = CONNECTION_ERROR, !.last_updated = current_time ]
    ELSE bay

\* lines 104-106 and 114-116: mark the bay CONNECTION_ERROR
MarkConnectionError(bay, current_time) ==
    IF bay.status # CONNECTION_ERROR
    THEN [ bay EXCEPT !.status = CONNECTION_ERROR, !.last_updated = current_time ]
    ELSE bay

\* lines 111-113: the stored frame is older than frame_timeout
FrameTimedOut(bay, current_time) ==
    /\ bay.last_frame_time # None
    /\ current_time - bay.last_frame_time[1] > frame_timeout

\* lines 125-128: auto-recovery from CONNECTION_ERROR is due
RecoveryDue(bay, is_connected, current_time) ==
    /\ bay.status = CONNECTION_ERROR
    /\ is_connected
    /\ bay.last_connection_time # None
    /\ current_time - bay.last_connection_time[1] >= connection_grace_period

\* RecoverBay that forgets to reset the detection counters
RecoverBay_KeepsCounters(bay) ==
    [ bay EXCEPT !.connection_recovery_pending = FALSE ]

\* lines 131-133: what auto-recovery does to the record (the status itself
\* is applied at the end of the update)
RecoverBay(bay) ==
    [ bay EXCEPT !.consecutive_detections = 0,
                 !.consecutive_non_detections = 0,
                 !.connection_recovery_pending = FALSE ]

\* InGracePeriod that never holds detection back
InGracePeriod_Never(bay, current_time) ==
    /\ bay.connection_recovery_pending
    /\ bay.last_connection_time # None
    /\ current_time - bay.last_connection_time[1] < 0

\* lines 137-139: the update falls inside the recovery grace period
InGracePeriod(bay, current_time) ==
    /\ bay.connection_recovery_pending
    /\ bay.last_connection_time # None
    /\ current_time - bay.last_connection_time[1] < connection_grace_period

\* CountDetection that does not restart the other counter
CountDetection_NoRestart(bay, vehicle_detected) ==
    IF vehicle_detected
    THEN [ bay EXCEPT !.consecutive_detections = @ + 1 ]
    ELSE [ bay EXCEPT !.consecutive_non_detections = @ + 1 ]

\* CountDetection that counts the other counter down instead of restarting
\* it
CountDetection_CountsDown(bay, vehicle_detected) ==
    IF vehicle_detected
    THEN [ bay EXCEPT !.consecutive_detections = @ + 1,
                      !.consecutive_non_detections = IF @ > 0 THEN @ - 1 ELSE 0 ]
    ELSE [ bay EXCEPT !.consecutive_detections = IF @ > 0 THEN @ - 1 ELSE 0,
                      !.consecutive_non_detections = @ + 1 ]

\* lines 145-151: detection counters
CountDetection(bay, vehicle_detected) ==
    IF vehicle_detected
    THEN [ bay EXCEPT !.consecutive_detections = @ + 1,
                      !.consecutive_non_detections = 0 ]
    ELSE [ bay EXCEPT !.consecutive_detections = 0,
                      !.consecutive_non_detections = @ + 1 ]

\* Transition whose fast path needs one detection more than the threshold
Transition_OffByOne(current_status, new_status, bay) ==
    IF /\ current_status = AVAILABLE
       /\ bay.consecutive_detections > available_to_inuse_threshold
    THEN IN_USE
    ELSE IF /\ current_status = IN_USE
            /\ bay.consecutive_non_detections >= inuse_to_available_threshold
    THEN AVAILABLE
    ELSE new_status

\* Transition whose fast path does not look at the current status
Transition_AnyStatus(current_status, new_status, bay) ==
    IF bay.consecutive_detections >= available_to_inuse_threshold
    THEN IN_USE
    ELSE IF /\ current_status = IN_USE
            /\ bay.consecutive_non_detections >= inuse_to_available_threshold
    THEN AVAILABLE
    ELSE new_status

\* Transition whose fast path also leaves OUT_OF_SERVICE
Transition_FromOutOfService(current_status, new_status, bay) ==
    IF /\ current_status \in {AVAILABLE, OUT_OF_SERVICE}
       /\ bay.consecutive_detections >= available_to_inuse_threshold
    THEN IN_USE
    ELSE IF /\ current_status = IN_USE
            /\ bay.consecutive_non_detections >= inuse_to_available_threshold
    THEN AVAILABLE
    ELSE new_status

\* lines 156-165: asymmetric transitions; new_status is what auto-recovery
\* left in the local variable
Transition(current_status, new_status, bay) ==
    IF /\ current_status = AVAILABLE
       /\ bay.consecutive_detections >= available_to_inuse_threshold
    THEN IN_USE
    ELSE IF /\ current_status = IN_USE
            /\ bay.consecutive_non_detections >= inuse_to_available_threshold
    THEN AVAILABLE
    ELSE new_status

\* ApplyStatus that leaves last_updated alone
ApplyStatus_KeepsTime(bay, current_status, new_status, current_time) ==
    IF new_status # current_status
    THEN [ bay EXCEPT !.status = new_status ]
    ELSE bay

\* lines 174-176: apply a status change
ApplyStatus(bay, current_status, new_status, current_time) ==
    IF new_status # current_status
    THEN [ bay EXCEPT !.status = new_status, !.last_updated = current_time ]
    ELSE bay

\* lines 120-179: the connection is good
HealthyUpdate(bay, vehicle_detected, is_connected, current_time) ==
    LET current_status == bay.status
        due == RecoveryDue(bay, is_connected, current_time)
        new_status == IF due THEN AVAILABLE ELSE current_status
        b1 == IF due THEN RecoverBay(bay) ELSE bay
    IN  IF InGracePeriod(b1, current_time)
        THEN b1
        ELSE LET b2 == IF b1.connection_recovery_pending
                               /\ b1.last_connection_time # None
                            THEN [ b1 EXCEPT !.connection_recovery_pending = FALSE ]
                            ELSE b1
                 b3 == CountDetection(b2, vehicle_detected)
             IN  ApplyStatus(b3, current_status,
                             Transition(current_status, new_status, b3),
                             current_time)

\* lines 75-179: the bay record update_bay_status leaves behind
UpdatedBay(bay, vehicle_detected, is_connected, last_frame_time, detection_confidence, current_time) ==
    LET was_connected == bay.is_connected
        b1 == StoreSample(bay, is_connected, last_frame_time, detection_confidence)
        b2 == TrackConnection(b1, was_connected, is_connected, current_time)
    IN  IF ~is_connected
        THEN MarkConnectionError(b2, current_time)
        ELSE IF FrameTimedOut(b2, current_time)
        THEN MarkConnectionError(b2, current_time)
        ELSE HealthyUpdate(b2, vehicle_detected, is_connected, current_time)

\* OutOfServiceBay that keeps the counters when the bay returns to service
OutOfServiceBay_KeepsCounters(bay, out_of_service, current_time) ==
    [ bay EXCEPT !.status = IF out_of_service THEN OUT_OF_SERVICE ELSE AVAILABLE,
                 !.last_updated = current_time ]

\* set_bay_out_of_service, lines 228-238
OutOfServiceBay(bay, out_of_service, current_time) ==
    IF out_of_service
    THEN [ bay EXCEPT !.status = OUT_OF_SERVICE, !.last_updated = current_time ]
    ELSE [ bay EXCEPT !.status = AVAILABLE,
                      !.consecutive_detections = 0,
                      !.consecutive_non_detections = 0,
                      !.last_updated = current_time ]

\* a get_bay_status that stamps the dictionary with the time of the call
StatusDict_ReadsClock(bay_id, bay) ==
    [ id |-> bay_id,
      status |-> bay.status,
      lastUpdated |-> now,
      isConnected |-> bay.is_connected,
      detectionConfidence |-> bay.detection_confidence ]

\* get_bay_status, lines 197-203: the dictionary returned for a bay
StatusDict(bay_id, bay) ==
    [ id |-> bay_id,
      status |-> bay.status,
      lastUpdated |-> bay.last_updated,
      isConnected |-> bay.is_connected,
      detectionConfidence |-> bay.detection_confidence ]

\* the frame times a caller can pass: none, a fresh frame, and a frame
\* read more than frame_timeout seconds before the tracker was constructed
FrameTimes == {None, Some(now), Some(0 - (frame_timeout + 1))}

(***************************************************************************)
(* SimpleRTSPStreamProcessor (simple_stream_processor.py).                 *)
(***************************************************************************)
Workers == 1..MaxWorkers

\* the worker threads the processor has room for
Threads == DOMAIN wpc

QualityLevels == {"high", "medium", "low"}

\* count n up to cap and stay there
Counted(n, cap) == IF n < cap THEN n + 1 ELSE cap

\* __init__, lines 38-61
InitProcessor ==
    [ cap |-> "none",
      is_connected |-> FALSE,
      is_running |-> FALSE,
      reconnect_attempts |-> 0,
      total_reconnects |-> 0,
      consecutive_failures |-> 0,
      quality_level |-> "high",
      last_error |-> "none",
      last_frame_time |-> None,
      last_successful_connection |-> None,
      frames_processed |-> 0,
      frames_failed |-> 0,
      car_detected |-> FALSE ]

\* get_status, lines 340-359: the copy of the fields taken under self.lock
get_status(p) ==
    [ is_connected |-> p.is_connected,
      vehicle_detected |-> p.car_detected,
      last_frame_time |-> p.last_frame_time,
      reconnect_attempts |-> p.reconnect_attempts,
      last_successful_connection |-> p.last_successful_connection,
      total_reconnects |-> p.total_reconnects,
      consecutive_failures |-> p.consecutive_failures,
      quality_level |-> p.quality_level,
      last_error |-> p.last_error,
      frames_processed |-> p.frames_processed,
      frames_failed |-> p.frames_failed ]

\* _degrade_quality, lines 77-84
_degrade_quality(quality_level) ==
    IF quality_level = "high" THEN "medium"
    ELSE IF quality_level = "medium" THEN "low"
    ELSE "low"

\* connect, lines 96-126: the capture opened, the test frame was read and
\* is_connected is set
ConnectOpened(p) ==
    [ p EXCEPT !.cap = "open",
               !.is_connected = TRUE ]

\* ConnectRecorded that also restores the full quality
ConnectRecorded_RestoresQuality(p, t) ==
    [ p EXCEPT !.last_successful_connection = Some(t),
               !.consecutive_failures = 0,
               !.last_error = "none",
               !.quality_level = "high" ]

\* connect, lines 127-129: the rest of what a successful connect records
ConnectRecorded(p, t) ==
    [ p EXCEPT !.last_successful_connection = Some(t),
               !.consecutive_failures = 0,
               !.last_error = "none" ]

\* ConnectFailed that goes on counting after it has degraded the quality
ConnectFailed_KeepsCounting(p) ==
    LET failures == p.consecutive_failures + 1
    IN  [ p EXCEPT !.cap = "unopened",
                   !.is_connected = FALSE,
                   !.last_error = "error",
                   !.quality_level = IF failures >= 3 THEN _degrade_quality(@) ELSE @,
                   !.consecutive_failures = failures ]

\* connect, lines 101-120 and 136-148: the capture did not open or gave no
\* test frame; the VideoCapture object stays in self.cap
ConnectFailed(p) ==
    LET failures == p.consecutive_failures + 1
    IN  [ p EXCEPT !.cap = "unopened",
                   !.is_connected = FALSE,
                   !.last_error = "error",
                   !.quality_level = IF failures >= 3 THEN _degrade_quality(@) ELSE @,
                   !.consecutive_failures = IF failures >= 3 THEN 0 ELSE failures ]

\* connect, lines 86-126 and 136-148: up to the assignment of is_connected
connect(p, cam) ==
    IF cam = "up" THEN ConnectOpened(p) ELSE ConnectFailed(p)

\* disconnect, lines 152-156
disconnect(p) == [ p EXCEPT !.cap = "none", !.is_connected = FALSE ]

\* a power of two
RECURSIVE Pow2(_)
Pow2(n) == IF n = 0 THEN 1 ELSE 2 * Pow2(n - 1)

Min(a, b) == IF a < b THEN a ELSE b

\* _calculate_backoff_delay, lines 162-163: the delay before the jitter
_calculate_backoff_delay(reconnect_attempts) ==
    Min(base_reconnect_interval * Pow2(Min(reconnect_attempts, 6)),
        max_reconnect_interval)

\* reconnect, lines 173-174
CountReconnect(p) ==
    [ p EXCEPT !.reconnect_attempts = Counted(@, AttemptsCap),
               !.total_reconnects = Counted(@, TotalCap) ]

\* a reconnect that never gives up
Exhausted_Never(p) == FALSE

\* reconnect, line 176: the attempts are used up
Exhausted(p) == p.reconnect_attempts > max_reconnect_attempts

\* get_frame, lines 205-206 and 211-214: a frame can be read
FrameReadable(p, cam) == p.is_connected /\ p.cap = "open" /\ cam = "up"

\* a processor just constructed, no thread started yet
StreamInitOf(threads) ==
    /\ sp = InitProcessor
    /\ wpc = [ w \in threads |-> "none" ]
    /\ site = [ w \in threads |-> 1 ]
    /\ delay = [ w \in threads |-> 0 ]
    /\ mpc = "idle"
    /\ camera = "up"

StreamInit == StreamInitOf(1..MaxWorkers)

\* the camera stops answering / answers again
CameraDown ==
    /\ camera = "up"
    /\ camera' = "down"
    /\ UNCHANGED <<sp, wpc, site, delay, mpc>>
    /\ TrackerIdle

CameraUp ==
    /\ camera = "down"
    /\ camera' = "up"
    /\ UNCHANGED <<sp, wpc, site, delay, mpc>>
    /\ TrackerIdle

\* start, lines 300-307: nothing when already running; otherwise connect,
\* and nothing more when that fails
start ==
    /\ mpc \in {"idle", "stopped"}
    /\ ~sp.is_running
    /\ \E w \in Threads : wpc[w] \in {"none", "done"}
    /\ sp' = connect(sp, camera)
    /\ mpc' = IF sp'.is_connected THEN "start" ELSE "idle"
    /\ UNCHANGED <<wpc, site, delay, camera>>
    /\ TrackerIdle

\* connect, lines 127-134, and start, lines 310-315: the connect is
\* recorded, is_running set and a worker thread begins process_stream
StartThread ==
    /\ mpc = "start"
    /\ sp' = [ ConnectRecorded(sp, now) EXCEPT !.is_running = TRUE ]
    /\ \E w \in Threads :
         /\ wpc[w] \in {"none", "done"}
         /\ wpc' = [ wpc EXCEPT ![w] = "loop" ]
    /\ mpc' = "idle"
    /\ UNCHANGED <<site, delay, camera>>
    /\ TrackerIdle

\* stop, lines 321-326: clear is_running, then join the worker
stop ==
    /\ mpc = "idle"
    /\ sp.is_running
    /\ sp' = [ sp EXCEPT !.is_running = FALSE ]
    /\ mpc' = "join"
    /\ UNCHANGED <<wpc, site, delay, camera>>
    /\ TrackerIdle

\* stop, lines 329-336: join(timeout=1.0) returns, whether or not the
\* worker has ended, the stream is disconnected and stop returns
StopDisconnect ==
    /\ mpc = "join"
    /\ sp' = disconnect(sp)
    /\ mpc' = "stopped"
    /\ UNCHANGED <<wpc, site, delay, camera>>
    /\ TrackerIdle

\* process_stream, lines 262-265 and 271: the loop test and what to do next
LoopTest(w) ==
    /\ wpc[w] = "loop"
    /\ wpc' = [ wpc EXCEPT ![w] =
                  IF ~sp.is_running THEN "done"
                  ELSE IF ~sp.is_connected THEN "reconnect"
                  ELSE "get_frame" ]
    /\ site' = [ site EXCEPT ![w] = 1 ]
    /\ UNCHANGED <<sp, delay, mpc, camera>>
    /\ TrackerIdle

\* reconnect, lines 173-192: count the attempt; give up when the attempts
\* are used up, otherwise disconnect and sleep the backoff delay
ReconnectBegin(w) ==
    /\ wpc[w] = "reconnect"
    /\ LET p == CountReconnect(sp)
       IN  IF Exhausted(p)
           THEN /\ sp' = p
                /\ wpc' = [ wpc EXCEPT ![w] = "retry_sleep" ]
                /\ UNCHANGED delay
           ELSE /\ sp' = IF p.is_connected THEN disconnect(p) ELSE p
                /\ wpc' = [ wpc EXCEPT ![w] = "connect" ]
                /\ delay' = [ delay EXCEPT ![w] =
                                _calculate_backoff_delay(p.reconnect_attempts) ]
    /\ UNCHANGED <<site, mpc, camera>>
    /\ TrackerIdle

\* reconnect, line 195: the sleep is over and connect runs up to the
\* assignment of is_connected; a failure returns to process_stream, which
\* sleeps
ReconnectConnect(w) ==
    /\ wpc[w] = "connect"
    /\ sp' = connect(sp, camera)
    /\ wpc' = [ wpc EXCEPT ![w] =
                  IF sp'.is_connected THEN "connected" ELSE "retry_sleep" ]
    /\ delay' = [ delay EXCEPT ![w] = 0 ]
    /\ UNCHANGED <<site, mpc, camera>>
    /\ TrackerIdle

\* connect, lines 127-134, and reconnect, lines 197-201, back in
\* process_stream: line 265 falls through to get_frame, line 275 continues
\* the loop
ReconnectRecord(w) ==
    /\ wpc[w] = "connected"
    /\ sp' = [ ConnectRecorded(sp, now) EXCEPT !.reconnect_attempts = 0 ]
    /\ wpc' = [ wpc EXCEPT ![w] = IF site[w] = 1 THEN "get_frame" ELSE "loop" ]
    /\ UNCHANGED <<site, delay, mpc, camera>>
    /\ TrackerIdle

\* process_stream, lines 267-268 and 277-278: sleep base_reconnect_interval
RetrySleep(w) ==
    /\ wpc[w] = "retry_sleep"
    /\ wpc' = [ wpc EXCEPT ![w] = "loop" ]
    /\ UNCHANGED <<sp, site, delay, mpc, camera>>
    /\ TrackerIdle

\* GetFrame whose failed read goes round the loop without a reconnect
GetFrame_SkipsReconnect(w) ==
    /\ wpc[w] = "get_frame"
    /\ IF FrameReadable(sp, camera)
       THEN /\ sp' = [ sp EXCEPT !.frames_processed = Counted(@, FramesCap) ]
            /\ wpc' = [ wpc EXCEPT ![w] = "frame" ]
       ELSE /\ sp' = IF sp.is_connected /\ sp.cap # "none"
                     THEN [ sp EXCEPT !.frames_failed = Counted(@, FramesCap) ]
                     ELSE sp
            /\ wpc' = [ wpc EXCEPT ![w] = "loop" ]
    /\ UNCHANGED <<site, delay, mpc, camera>>
    /\ TrackerIdle

\* get_frame, lines 205-224: a frame is read and counted, or there is no
\* frame and process_stream, lines 273-275, reconnects
GetFrame(w) ==
    /\ wpc[w] = "get_frame"
    /\ IF FrameReadable(sp, camera)
       THEN /\ sp' = [ sp EXCEPT !.frames_processed = Counted(@, FramesCap) ]
            /\ wpc' = [ wpc EXCEPT ![w] = "frame" ]
            /\ UNCHANGED site
       ELSE /\ sp' = IF sp.is_connected /\ sp.cap # "none"
                     THEN [ sp EXCEPT !.frames_failed = Counted(@, FramesCap) ]
                     ELSE sp
            /\ wpc' = [ wpc EXCEPT ![w] = "reconnect" ]
            /\ site' = [ site EXCEPT ![w] = 2 ]
    /\ UNCHANGED <<delay, mpc, camera>>
    /\ TrackerIdle

\* get_frame, lines 225-236, then process_stream, lines 281-296: the frame
\* time is recorded and the frame classified
RecordFrame(w) ==
    /\ wpc[w] = "frame"
    /\ \E detected \in BOOLEAN :
         sp' = [ sp EXCEPT !.last_frame_time = Some(now),
                           !.car_detected = detected ]
    /\ wpc' = [ wpc EXCEPT ![w] = "loop" ]
    /\ UNCHANGED <<site, delay, mpc, camera>>
    /\ TrackerIdle

WorkerStep(w) ==
    \/ LoopTest(w)
    \/ ReconnectBegin(w)
    \/ ReconnectConnect(w)
    \/ ReconnectRecord(w)
    \/ RetrySleep(w)
    \/ GetFrame(w)
    \/ RecordFrame(w)

StreamNext ==
    \/ CameraDown
    \/ CameraUp
    \/ start
    \/ StartThread
    \/ stop
    \/ StopDisconnect
    \/ \E w \in Workers : WorkerStep(w)

(***************************************************************************)
(* What a sequence of updates fed to a bay amounts to, told from the       *)
(* arguments alone: an update counts as a detection sample when it reports *)
(* the stream connected, the newest frame time known is not older than     *)
(* frame_timeout, and the last false -> true change of is_connected (this  *)
(* update's included) is at least connection_grace_period old.             *)
(***************************************************************************)
NewestFrame(bay, last_frame_time) ==
    IF last_frame_time # None THEN last_frame_time ELSE bay.last_frame_time

FrameStale(bay, last_frame_time, t) ==
    /\ NewestFrame(bay, last_frame_time) # None
    /\ t - NewestFrame(bay, last_frame_time)[1] > frame_timeout

LastConnect(bay, is_connected, t) ==
    IF is_connected /\ ~bay.is_connected THEN Some(t) ELSE bay.last_connection_time

WithinGrace(bay, is_connected, t) ==
    /\ LastConnect(bay, is_connected, t) # None
    /\ t - LastConnect(bay, is_connected, t)[1] < connection_grace_period

Sampled(bay, is_connected, last_frame_time, t) ==
    /\ is_connected
    /\ ~FrameStale(bay, last_frame_time, t)
    /\ ~WithinGrace(bay, is_connected, t)

NoneFed == [ detected |-> 0, empty |-> 0 ]

FedAfter(f, bay, vehicle_detected, is_connected, last_frame_time, t) ==
    IF ~Sampled(bay, is_connected, last_frame_time, t) THEN NoneFed
    ELSE IF vehicle_detected THEN [ detected |-> f.detected + 1, empty |-> 0 ]
    ELSE [ detected |-> 0, empty |-> f.empty + 1 ]

(***************************************************************************)
(* Configuration loading (config.py) and the start of the program          *)
(* (simple_app.py, __main__).                                              *)
(***************************************************************************)

(***************************************************************************)
(* The configuration (config.py) and the start of the program.  A value of *)
(* the environment is None when the variable is not set and Some(s)        *)
(* otherwise, s being the string as a sequence of characters.              *)
(***************************************************************************)

DigitChars == {"0", "1", "2", "3", "4", "5", "6", "7", "8", "9"}

DigitValue(c) ==
    CASE c = "0" -> 0 [] c = "1" -> 1 [] c = "2" -> 2 [] c = "3" -> 3
      [] c = "4" -> 4 [] c = "5" -> 5 [] c = "6" -> 6 [] c = "7" -> 7
      [] c = "8" -> 8 [] c = "9" -> 9

\* the value of a string of decimal digits
RECURSIVE Decimal(_)
Decimal(s) ==
    IF s = <<>> THEN 0
    ELSE 10 * Decimal(SubSeq(s, 1, Len(s) - 1)) + DigitValue(s[Len(s)])

\* int(s) of lines 115 and 117: Some(n) for an optional sign followed by
\* decimal digits, None where int raises ValueError
int(s) ==
    LET signed == s # <<>> /\ s[1] \in {"-", "+"}
        digits == IF signed THEN Tail(s) ELSE s
    IN  IF digits = <<>> \/ \E i \in 1..Len(digits) : digits[i] \notin DigitChars
        THEN None
        ELSE Some(IF signed /\ s[1] = "-" THEN 0 - Decimal(digits) ELSE Decimal(digits))

\* `if os.getenv(name):` of lines 114 and 116: the variable is set to a
\* string that is not empty
Given(value) == value # None /\ value[1] # <<>>

\* the camera address built into config.py, lines 93-98
DefaultUrl == <<"r", "t", "s", "p">>

\* StatusConfig, lines 28-29, and __post_init__, lines 92-98: the thresholds
\* default, and the stream address comes from the environment when the
\* variable is set, empty or not
DefaultConfig(environment) ==
    [ available_to_inuse_threshold |-> available_to_inuse_threshold,
      inuse_to_available_threshold |-> inuse_to_available_threshold,
      rtsp_url |-> IF environment.RTSP_URL_1 = None THEN DefaultUrl
                   ELSE environment.RTSP_URL_1[1] ]

\* the environment of a program started with nothing set
NoEnv ==
    [ STATUS_FAST_THRESHOLD |-> None, STATUS_SLOW_THRESHOLD |-> None,
      RTSP_URL_1 |-> None ]

\* the configuration of a program started with nothing set, and running
ConfigLoaded ==
    /\ env = NoEnv
    /\ config = DefaultConfig(NoEnv)
    /\ thresholds = Some([ available_to_inuse_threshold |-> config.available_to_inuse_threshold,
                           inuse_to_available_threshold |-> config.inuse_to_available_threshold ])
    /\ boot = "running"

(***************************************************************************)
(* The program as a whole (simple_app.py): the update_bay_statuses thread, *)
(* the stream workers as it sees them through get_status(), and the health *)
(* monitor (health_monitor.py).                                            *)
(***************************************************************************)

\* the threads that read the health: HealthMonitor._monitor_loop and a
\* request handler
HealthReaders == {"monitor", "http"}

\* initialize_system, lines 72-84: each bay's processor as constructed
InitView == InitProcessor

\* HealthMonitor.__init__, lines 52-60
InitSystemHealth == [ bays_connected |-> 0, last_health_check |-> 0 ]

\* the program before any of its threads has run
AppIdle ==
    /\ plock = [ b \in 1..bay_count |-> "free" ]
    /\ pview = [ b \in 1..bay_count |-> InitView ]
    /\ produced = [ b \in 1..bay_count |-> 0 ]
    /\ applied = [ b \in 1..bay_count |-> <<>> ]
    /\ upc = "sleep"
    /\ ubay = 1
    /\ statuses = [ b \in 1..bay_count |-> None ]
    /\ hlock = "free"
    /\ hpc = [ t \in HealthReaders |-> "idle" ]
    /\ bay_healths = [ b \in 1..bay_count |-> None ]
    /\ system_health = InitSystemHealth

\* everything but the program-level variables stays as it is
AppOnly ==
    /\ UNCHANGED <<bay_count, pc, acc, lock>>
    /\ UNCHANGED <<streamVars, cfgVars, has_sigalrm>>

(***************************************************************************)
(* Actions.  threading.Lock is not reentrant: `with self.lock` waits until *)
(* the lock is free, whoever holds it.  A call whose whole body runs under *)
(* the lock and calls nothing that takes it is one step.                   *)
(***************************************************************************)

\* BayTracker(bay_count=BayCount), lines 33 and 44-60
Init ==
    /\ bay_count = BayCount
    /\ now = 0
    /\ bays = [ b \in 1..bay_count |-> InitBay(0) ]
    /\ lock = "free"
    /\ pc = "idle"
    /\ acc = <<>>
    /\ last_call = Call("init", 0, FALSE, FALSE, AVAILABLE, NoResult)
    /\ fed = [ b \in 1..bay_count |-> NoneFed ]
    /\ writer = [ b \in 1..bay_count |-> "__init__" ]
    /\ StreamInit
    /\ has_sigalrm = FALSE
    /\ AppIdle
    /\ ConfigLoaded

\* the clock advances
Tick ==
    /\ now + TickStep <= MaxTime
    /\ now' = now + TickStep
    /\ UNCHANGED <<bay_count, bays, lock, pc, acc, last_call, fed, writer>>
    /\ UNCHANGED <<streamVars, appVars, cfgVars>>

\* update_bay_status, lines 70-72: an unknown bay id is logged and nothing
\* else happens; lines 74-179 otherwise
update_bay_status(bay_id, vehicle_detected, is_connected, last_frame_time, detection_confidence) ==
    /\ IF bay_id \notin DOMAIN bays
       THEN /\ last_call' = Call("update_bay_status", bay_id, vehicle_detected,
                                 is_connected, NoStatus, Rejected)
            /\ UNCHANGED <<bays, fed, writer>>
       ELSE /\ lock = "free"
            /\ LET new == UpdatedBay(bays[bay_id], vehicle_detected, is_connected,
                                     last_frame_time, detection_confidence, now)
               IN  /\ new.consecutive_detections <= MaxCount
                   /\ new.consecutive_non_detections <= MaxCount
                   /\ bays' = [ bays EXCEPT ![bay_id] = new ]
            /\ last_call' = Call("update_bay_status", bay_id, vehicle_detected,
                                 is_connected, bays[bay_id].status, NoResult)
            /\ fed' = [ fed EXCEPT ![bay_id] =
                          FedAfter(@, bays[bay_id], vehicle_detected, is_connected,
                                   last_frame_time, now) ]
            /\ writer' = [ writer EXCEPT ![bay_id] = "update_bay_status" ]
    /\ UNCHANGED <<bay_count, lock, pc, acc, now>>
    /\ UNCHANGED <<streamVars, appVars, cfgVars>>

\* a set_bay_out_of_service that takes every bay out of or into service
set_bay_out_of_service_EveryBay(bay_id, out_of_service) ==
    /\ lock = "free"
    /\ bays' = [ b \in DOMAIN bays |-> OutOfServiceBay(bays[b], out_of_service, now) ]
    /\ last_call' = Call("set_bay_out_of_service", bay_id, FALSE, out_of_service,
                         bays[bay_id].status, NoResult)
    /\ fed' = [ fed EXCEPT ![bay_id] = NoneFed ]
    /\ writer' = [ writer EXCEPT ![bay_id] = "set_bay_out_of_service" ]
    /\ UNCHANGED <<bay_count, lock, pc, acc, now>>
    /\ UNCHANGED <<streamVars, appVars, cfgVars>>

\* set_bay_out_of_service, lines 223-225: an unknown bay id is logged and
\* nothing else happens; lines 227-239 otherwise
set_bay_out_of_service(bay_id, out_of_service) ==
    /\ IF bay_id \notin DOMAIN bays
       THEN /\ last_call' = Call("set_bay_out_of_service", bay_id, FALSE,
                                 out_of_service, NoStatus, Rejected)
            /\ UNCHANGED <<bays, fed, writer>>
       ELSE /\ lock = "free"
            /\ bays' = [ bays EXCEPT ![bay_id] = OutOfServiceBay(@, out_of_service, now) ]
            /\ last_call' = Call("set_bay_out_of_service", bay_id, FALSE, out_of_service,
                                 bays[bay_id].status, NoResult)
            /\ fed' = [ fed EXCEPT ![bay_id] = NoneFed ]
            /\ writer' = [ writer EXCEPT ![bay_id] = "set_bay_out_of_service" ]
    /\ UNCHANGED <<bay_count, lock, pc, acc, now>>
    /\ UNCHANGED <<streamVars, appVars, cfgVars>>

\* a force_bay_available handler without the test of line 344
force_bay_available_Unchecked(bay_id) ==
    /\ lock = "free"
    /\ bays' = [ b \in DOMAIN bays |->
                   IF b = bay_id THEN OutOfServiceBay(bays[b], FALSE, now) ELSE bays[b] ]
    /\ last_call' = Call("force_bay_available", bay_id, FALSE, FALSE, NoStatus,
                         <<"forced to available status">>)
    /\ UNCHANGED <<fed, writer>>
    /\ UNCHANGED <<bay_count, lock, pc, acc, now>>
    /\ UNCHANGED <<streamVars, appVars, cfgVars>>

\* force_bay_available (simple_app.py), lines 344-354: for a bay that has a
\* processor, set_bay_out_of_service(bay_id, False) and a reset of the
\* detector's background (which is no part of a bay's state); status 400
\* otherwise
force_bay_available(bay_id) ==
    /\ IF bay_id \in stream_processors
       THEN /\ lock = "free"
            /\ bays' = [ bays EXCEPT ![bay_id] = OutOfServiceBay(@, FALSE, now) ]
            /\ last_call' = Call("force_bay_available", bay_id, FALSE, FALSE,
                                 bays[bay_id].status,
                                 <<"forced to available status">>)
            /\ fed' = [ fed EXCEPT ![bay_id] = NoneFed ]
            /\ writer' = [ writer EXCEPT ![bay_id] = "set_bay_out_of_service" ]
       ELSE /\ last_call' = Call("force_bay_available", bay_id, FALSE, FALSE,
                                 NoStatus, Rejected)
            /\ UNCHANGED <<bays, fed, writer>>
    /\ UNCHANGED <<bay_count, lock, pc, acc, now>>
    /\ UNCHANGED <<streamVars, appVars, cfgVars>>

\* reset_background (simple_app.py), lines 334-339: the detector's
\* background is reset for a bay that has a processor; status 400 otherwise
reset_background(bay_id) ==
    /\ last_call' = IF bay_id \in stream_processors
                    THEN Call("reset_background", bay_id, FALSE, FALSE,
                              bays[bay_id].status, <<"Background reset">>)
                    ELSE Call("reset_background", bay_id, FALSE, FALSE,
                              NoStatus, Rejected)
    /\ UNCHANGED <<bay_count, bays, lock, pc, acc, now, fed, writer>>
    /\ UNCHANGED <<streamVars, appVars, cfgVars>>

\* get_all_bay_statuses, line 212: take the lock; the list comprehension
\* of line 213 then calls get_bay_status for bay 1, 2, ... with the lock held
get_all_bay_statuses ==
    /\ pc = "idle"
    /\ lock = "free"
    /\ lock' = "http"
    /\ pc' = "get_all_bay_statuses"
    /\ acc' = <<>>
    /\ last_call' = Call("get_all_bay_statuses", 0, FALSE, FALSE, AVAILABLE, NoResult)
    /\ UNCHANGED <<bay_count, bays, now, fed, writer>>
    /\ UNCHANGED <<streamVars, appVars, cfgVars>>

\* get_bay_status, lines 191-203, called directly by a handler (pc = "idle")
\* or from the list comprehension of get_all_bay_statuses, which returns the
\* finished list and releases the lock after the last bay
get_bay_status(bay_id) ==
    /\ IF bay_id \notin DOMAIN bays
       THEN /\ pc = "idle"
            /\ last_call' = Call("get_bay_status", bay_id, FALSE, FALSE,
                                 NoStatus, Rejected)
            /\ UNCHANGED <<lock, pc, acc>>
       ELSE IF pc = "idle"
       THEN /\ lock = "free"
            /\ last_call' =
                 [ Call("get_bay_status", bay_id, FALSE, FALSE,
                        bays[bay_id].status,
                        <<StatusDict(bay_id, bays[bay_id])>>)
                   EXCEPT !.repeat = /\ last_call.op = "get_bay_status"
                                     /\ last_call.bay = bay_id ]
            /\ UNCHANGED <<lock, pc, acc>>
       ELSE /\ lock = "free"
            /\ bay_id = Len(acc) + 1
            /\ IF bay_id = bay_count
               THEN /\ last_call' = [ last_call EXCEPT !.result =
                                        Append(acc, StatusDict(bay_id, bays[bay_id])) ]
                    /\ acc' = <<>>
                    /\ pc' = "idle"
                    /\ lock' = "free"
               ELSE /\ acc' = Append(acc, StatusDict(bay_id, bays[bay_id]))
                    /\ UNCHANGED <<lock, pc, last_call>>
    /\ UNCHANGED <<bay_count, bays, now, fed, writer>>
    /\ UNCHANGED <<streamVars, appVars, cfgVars>>

Next ==
    \/ Tick
    \/ \E b \in BayIds, d \in BOOLEAN, c \in BOOLEAN, f \in FrameTimes,
          conf \in Confidences : update_bay_status(b, d, c, f, conf)
    \/ \E b \in BayIds, o \in BOOLEAN : set_bay_out_of_service(b, o)
    \/ \E b \in BayIds : get_bay_status(b)
    \/ get_all_bay_statuses

Spec == Init /\ [][Next]_vars

\* _get_station_statuses, lines 303-315: the stations made of the list that
\* get_all_bay_statuses returned
Stations(bay_statuses) ==
    [ i \in 1..Len(bay_statuses) |->
        [ id |-> bay_statuses[i].id,
          status |-> IF bay_statuses[i].status = "connectionError"
                     THEN "outOfService"
                     ELSE bay_statuses[i].status,
          lastUpdated |-> bay_statuses[i].lastUpdated ] ]

\* the thread of a request keeps being scheduled: inside
\* get_all_bay_statuses it goes on to the next get_bay_status
FairReadSpec ==
    /\ Spec
    /\ WF_vars(\E b \in BayIds : pc = "get_all_bay_statuses" /\ get_bay_status(b))

\* the tracker under commands that may name any bay id: updates that carry
\* a fresh frame, and the requests of an operator
RequestNext ==
    \/ Tick
    \/ \E b \in RequestIds, d \in BOOLEAN, c \in BOOLEAN :
          update_bay_status(b, d, c, Some(now), 0)
    \/ \E b \in RequestIds, o \in BOOLEAN : set_bay_out_of_service(b, o)
    \/ \E b \in RequestIds : force_bay_available(b)
    \/ \E b \in RequestIds : reset_background(b)

RequestSpec == Init /\ [][RequestNext]_vars

\* one stream processor, its worker and its camera
StreamSpec == Init /\ [][StreamNext]_vars

\* a started worker thread keeps running: its sleeps, connects and reads
\* all return
FairStreamSpec == StreamSpec /\ \A w \in Workers : WF_vars(WorkerStep(w))

\* a stream processor that is started, stopped and started again while its
\* camera answers: the thread of a start can outlive the stop
RestartInit ==
    /\ bay_count = BayCount
    /\ now = 0
    /\ bays = [ b \in 1..bay_count |-> InitBay(0) ]
    /\ lock = "free"
    /\ pc = "idle"
    /\ acc = <<>>
    /\ last_call = Call("init", 0, FALSE, FALSE, AVAILABLE, NoResult)
    /\ fed = [ b \in 1..bay_count |-> NoneFed ]
    /\ writer = [ b \in 1..bay_count |-> "__init__" ]
    /\ StreamInitOf(1..MaxThreads)
    /\ has_sigalrm = FALSE
    /\ AppIdle
    /\ ConfigLoaded

RestartNext ==
    \/ start
    \/ StartThread
    \/ stop
    \/ StopDisconnect
    \/ \E w \in Threads : LoopTest(w)
    \/ \E w \in Threads : ReconnectBegin(w)
    \/ \E w \in Threads : ReconnectConnect(w)
    \/ \E w \in Threads : ReconnectRecord(w)
    \/ \E w \in Threads : GetFrame(w)
    \/ \E w \in Threads : RecordFrame(w)

RestartSpec == RestartInit /\ [][RestartNext]_vars

(***************************************************************************)
(* The stream workers as update_bay_statuses sees them.                    *)
(***************************************************************************)

\* connect, line 126, and connect / disconnect, lines 137 and 156: the
\* worker of bay b sets is_connected, without taking the processor's lock
WorkerConnects(b) ==
    /\ ~pview[b].is_connected
    /\ plock[b] = "free"
    /\ pview' = [ pview EXCEPT ![b].is_connected = TRUE ]
    /\ UNCHANGED <<plock, produced, applied, upc, ubay, statuses,
                   hlock, hpc, bay_healths, system_health>>
    /\ UNCHANGED <<bays, last_call, fed, writer, now>>
    /\ AppOnly

WorkerDisconnects(b) ==
    /\ pview[b].is_connected
    /\ plock[b] = "free"
    /\ pview' = [ pview EXCEPT ![b].is_connected = FALSE ]
    /\ UNCHANGED <<plock, produced, applied, upc, ubay, statuses,
                   hlock, hpc, bay_healths, system_health>>
    /\ UNCHANGED <<bays, last_call, fed, writer, now>>
    /\ AppOnly

\* get_frame, line 225, and process_stream, lines 281-287: a frame is read
\* and classified under the processor's lock, and the result published
WorkerClassifies(b) ==
    /\ pview[b].is_connected
    /\ plock[b] = "free"
    /\ produced[b] < MaxResults
    /\ \E detected \in BOOLEAN :
         pview' = [ pview EXCEPT ![b].car_detected = detected,
                                 ![b].last_frame_time = Some(now) ]
    /\ produced' = [ produced EXCEPT ![b] = @ + 1 ]
    /\ UNCHANGED <<plock, applied, upc, ubay, statuses,
                   hlock, hpc, bay_healths, system_health>>
    /\ UNCHANGED <<bays, last_call, fed, writer, now>>
    /\ AppOnly

\* process_stream, lines 282-283: detect_car does not return, and the
\* worker keeps the processor's lock.  One worker at most stalls
WorkerStalls(b) ==
    /\ pview[b].is_connected
    /\ \A other \in BayIds : plock[other] = "free"
    /\ plock' = [ plock EXCEPT ![b] = "worker" ]
    /\ UNCHANGED <<pview, produced, applied, upc, ubay, statuses,
                   hlock, hpc, bay_healths, system_health>>
    /\ UNCHANGED <<bays, last_call, fed, writer, now>>
    /\ AppOnly

(***************************************************************************)
(* update_bay_statuses (simple_app.py), run in a thread of its own         *)
(* (lines 426-428).                                                        *)
(***************************************************************************)

\* lines 188-194: the fallback status; it has no quality_level key
FallbackStatus ==
    [ is_connected |-> FALSE,
      vehicle_detected |-> FALSE,
      last_frame_time |-> None,
      quality_level |-> "absent" ]

\* dict.get(key, default)
Get(d, key, default) == IF key \in DOMAIN d THEN d[key] ELSE default

\* HealthMonitor.__init__, line 48: the time the monitor was constructed
start_time == 0

\* update_bay_health, lines 96-102: the uptime estimate, 30 seconds lost
\* per reconnect; the model keeps the integer part of the percentage, which
\* is below 90 exactly when the percentage is
uptime_percentage(processor_status, current_time) ==
    LET total_time == current_time - start_time
        connection_time ==
            total_time - Get(processor_status, "total_reconnects", 0) * 30
        percent == (connection_time * 100) \div total_time
    IN  IF Get(processor_status, "last_successful_connection", None) # None
           /\ total_time > 0
        THEN IF percent < 0 THEN 0 ELSE IF percent > 100 THEN 100 ELSE percent
        ELSE 0

\* update_bay_health, lines 105-117: the ConnectionHealth record built with
\* processor_status.get(key, default)
ConnectionHealth(processor_status, current_time) ==
    [ is_connected |-> processor_status.is_connected,
      quality_level |-> IF processor_status.quality_level = "absent"
                        THEN "unknown" ELSE processor_status.quality_level,
      total_reconnects |-> Get(processor_status, "total_reconnects", 0),
      uptime_percentage |-> uptime_percentage(processor_status, current_time) ]

\* the alerts of one bay with the reconnect test of line 184 off by one
BayAlerts_TenReconnects(bay_id, health) ==
    (IF ~health.is_connected
     THEN << [ type |-> "error", bay_id |-> bay_id,
               message |-> <<"is disconnected">>, severity |-> "high" ] >>
     ELSE <<>>)
    \o
    (IF health.quality_level \in {"medium", "low"}
     THEN << [ type |-> "warning", bay_id |-> bay_id,
               message |-> <<"running at quality", health.quality_level>>,
               severity |-> "medium" ] >>
     ELSE <<>>)
    \o
    (IF health.total_reconnects >= 10
     THEN << [ type |-> "warning", bay_id |-> bay_id,
               message |-> <<"has reconnected", health.total_reconnects>>,
               severity |-> "medium" ] >>
     ELSE <<>>)
    \o
    (IF health.uptime_percentage < 90
     THEN << [ type |-> "warning", bay_id |-> bay_id,
               message |-> <<"uptime is low", health.uptime_percentage>>,
               severity |-> "medium" ] >>
     ELSE <<>>)

\* _get_health_alerts, lines 165-200: the alerts of one bay, in the order
\* of the four tests; a message is its wording and the values put into it
BayAlerts(bay_id, health) ==
    (IF ~health.is_connected
     THEN << [ type |-> "error", bay_id |-> bay_id,
               message |-> <<"is disconnected">>, severity |-> "high" ] >>
     ELSE <<>>)
    \o
    (IF health.quality_level \in {"medium", "low"}
     THEN << [ type |-> "warning", bay_id |-> bay_id,
               message |-> <<"running at quality", health.quality_level>>,
               severity |-> "medium" ] >>
     ELSE <<>>)
    \o
    (IF health.total_reconnects > 10
     THEN << [ type |-> "warning", bay_id |-> bay_id,
               message |-> <<"has reconnected", health.total_reconnects>>,
               severity |-> "medium" ] >>
     ELSE <<>>)
    \o
    (IF health.uptime_percentage < 90
     THEN << [ type |-> "warning", bay_id |-> bay_id,
               message |-> <<"uptime is low", health.uptime_percentage>>,
               severity |-> "medium" ] >>
     ELSE <<>>)

\* _get_health_alerts, lines 163-202: a list that starts empty and takes
\* the alerts of every recorded bay from bay_id on
RECURSIVE AlertsFrom(_, _)
AlertsFrom(healths, bay_id) ==
    IF bay_id \notin DOMAIN healths THEN <<>>
    ELSE (IF healths[bay_id] = None THEN <<>>
          ELSE BayAlerts(bay_id, healths[bay_id][1]))
         \o AlertsFrom(healths, bay_id + 1)

_get_health_alerts(healths) == AlertsFrom(healths, 1)

\* the detection counters are Python integers; the program only compares
\* them with the thresholds, so the model stops counting at MaxCount
Saturated(bay) ==
    [ bay EXCEPT
        !.consecutive_detections = IF @ > MaxCount THEN MaxCount ELSE @,
        !.consecutive_non_detections = IF @ > MaxCount THEN MaxCount ELSE @ ]

\* lines 131-147: a tick begins with an empty `statuses`
SupervisorTick ==
    /\ upc = "sleep"
    /\ upc' = "collect"
    /\ ubay' = 1
    /\ statuses' = [ b \in BayIds |-> None ]
    /\ UNCHANGED <<plock, pview, produced, applied,
                   hlock, hpc, bay_healths, system_health>>
    /\ UNCHANGED <<bays, last_call, fed, writer, now>>
    /\ AppOnly

\* lines 160-162 in a thread that is not the main thread: signal.signal
\* raises ValueError, which line 185 catches; get_status and the tracker
\* are not reached and the fallback status is stored
PollRaises(b) ==
    /\ statuses' = [ statuses EXCEPT ![b] = Some(FallbackStatus) ]
    /\ UNCHANGED <<bays, last_call, fed, writer, applied>>

\* lines 165-182 with no SIGALRM: get_status waits for the processor's
\* lock, update_bay_status for the tracker's.  last_call, fed and writer
\* keep the history of the calls made in the tracker's own specification
\* and are not kept here
PollSamples(b) ==
    /\ plock[b] = "free"
    /\ lock = "free"
    /\ LET status == get_status(pview[b])
           detection_confidence == IF status.vehicle_detected THEN 1 ELSE 0
       IN  /\ statuses' = [ statuses EXCEPT ![b] = Some(status) ]
           /\ bays' = [ bays EXCEPT ![b] =
                          Saturated(UpdatedBay(@, status.vehicle_detected,
                                               status.is_connected,
                                               status.last_frame_time,
                                               detection_confidence, now)) ]
           /\ UNCHANGED <<last_call, fed, writer>>
    /\ applied' = [ applied EXCEPT ![b] =
                      IF produced[b] > 0 /\ Len(@) < MaxApplied
                      THEN Append(@, produced[b]) ELSE @ ]

\* lines 149-194: one turn of the for loop over stream_processors
SupervisorPoll ==
    /\ upc = "collect"
    /\ IF has_sigalrm THEN PollRaises(ubay) ELSE PollSamples(ubay)
    /\ IF ubay = bay_count
       THEN upc' = "health" /\ ubay' = 1
       ELSE upc' = upc /\ ubay' = ubay + 1
    /\ UNCHANGED <<plock, pview, produced, hlock, hpc, bay_healths, system_health>>
    /\ UNCHANGED now
    /\ AppOnly

\* lines 198-204 and 268: update_bay_health for every entry of `statuses`,
\* each under HealthMonitor.lock, then the sleep
SupervisorHealth ==
    /\ upc = "health"
    /\ hlock = "free"
    /\ bay_healths' = [ b \in BayIds |->
                          IF statuses[b] # None
                          THEN Some(ConnectionHealth(statuses[b][1], now))
                          ELSE bay_healths[b] ]
    /\ upc' = "sleep"
    /\ UNCHANGED <<plock, pview, produced, applied, ubay, statuses,
                   hlock, hpc, system_health>>
    /\ UNCHANGED <<bays, last_call, fed, writer, now>>
    /\ AppOnly

SupervisorStep ==
    \/ SupervisorTick
    \/ SupervisorPoll
    \/ SupervisorHealth

(***************************************************************************)
(* HealthMonitor (health_monitor.py).  Its lock is a threading.Lock too.   *)
(***************************************************************************)

\* how many bays the health monitor has as connected, line 130
BaysConnected ==
    Cardinality({ b \in BayIds :
                    bay_healths[b] # None /\ bay_healths[b][1].is_connected })

\* get_health_summary, line 137: take the lock; line 138 then calls
\* get_system_health with the lock held
get_health_summary(t) ==
    /\ hpc[t] = "idle"
    /\ hlock = "free"
    /\ hlock' = t
    /\ hpc' = [ hpc EXCEPT ![t] = "get_health_summary" ]
    /\ UNCHANGED <<plock, pview, produced, applied, upc, ubay, statuses,
                   bay_healths, system_health>>
    /\ UNCHANGED <<bays, last_call, fed, writer, now>>
    /\ AppOnly

\* get_system_health, lines 126-133, called on its own (hpc[t] = "idle") or
\* from get_health_summary, which then builds the summary of lines 140-159
\* and releases the lock
get_system_health(t) ==
    /\ hlock = "free"
    /\ system_health' = [ bays_connected |-> BaysConnected,
                          last_health_check |-> now ]
    /\ IF hpc[t] = "idle"
       THEN UNCHANGED <<hlock, hpc>>
       ELSE /\ hpc' = [ hpc EXCEPT ![t] = "idle" ]
            /\ hlock' = "free"
    /\ UNCHANGED <<plock, pview, produced, applied, upc, ubay, statuses,
                   bay_healths>>
    /\ UNCHANGED <<bays, last_call, fed, writer, now>>
    /\ AppOnly

\* the program running: AppBays bays, on a platform with or without SIGALRM
AppInit ==
    /\ bay_count = AppBays
    /\ now = 0
    /\ bays = [ b \in 1..bay_count |-> InitBay(0) ]
    /\ lock = "free"
    /\ pc = "idle"
    /\ acc = <<>>
    /\ last_call = Call("init", 0, FALSE, FALSE, AVAILABLE, NoResult)
    /\ fed = [ b \in 1..bay_count |-> NoneFed ]
    /\ writer = [ b \in 1..bay_count |-> "__init__" ]
    /\ StreamInit
    /\ has_sigalrm \in BOOLEAN
    /\ AppIdle
    /\ ConfigLoaded

\* the stream workers and the update_bay_statuses thread
AppNext ==
    \/ \E b \in BayIds : WorkerConnects(b)
    \/ \E b \in BayIds : WorkerDisconnects(b)
    \/ \E b \in BayIds : WorkerClassifies(b)
    \/ \E b \in BayIds : WorkerStalls(b)
    \/ SupervisorStep

AppSpec == AppInit /\ [][AppNext]_vars

\* the tracker of the program as a whole, AppBays bays, under updates that
\* carry a fresh frame with a vehicle in it and the commands of an
\* operator, until the grace period of a connection made at the start is
\* over
PairNext ==
    \/ now < connection_grace_period /\ Tick
    \/ \E b \in BayIds, c \in BOOLEAN :
          update_bay_status(b, TRUE, c, Some(now), 1)
    \/ \E b \in BayIds, o \in BOOLEAN : set_bay_out_of_service(b, o)

PairSpec == AppInit /\ [][PairNext]_vars

\* the update_bay_statuses thread and the worker threads keep being
\* scheduled
FairAppSpec ==
    /\ AppSpec
    /\ WF_vars(SupervisorStep)
    /\ \A b \in 1..AppBays : WF_vars(WorkerConnects(b) \/ WorkerDisconnects(b))

\* the statuses the health monitor is fed: get_status of a connected and
\* of a disconnected processor, and the fallback status
FedStatuses ==
    { get_status([ InitView EXCEPT !.is_connected = c ]) : c \in BOOLEAN }
        \cup { FallbackStatus }

\* an update_bay_health that also marks the tracker's bay disconnected
update_bay_health_MarksBay(bay_id, processor_status) ==
    /\ hlock = "free"
    /\ bay_healths' = [ bay_healths EXCEPT ![bay_id] =
                          Some(ConnectionHealth(processor_status, now)) ]
    /\ bays' = [ bays EXCEPT ![bay_id].is_connected = processor_status.is_connected ]
    /\ last_call' = Call("update_bay_health", bay_id, FALSE,
                         processor_status.is_connected, NoStatus, NoResult)
    /\ UNCHANGED <<plock, pview, produced, applied, upc, ubay, statuses,
                   hlock, hpc, system_health>>
    /\ UNCHANGED <<fed, writer, now>>
    /\ AppOnly

\* update_bay_health, lines 92-117
update_bay_health(bay_id, processor_status) ==
    /\ hlock = "free"
    /\ bay_healths' = [ bay_healths EXCEPT ![bay_id] =
                          Some(ConnectionHealth(processor_status, now)) ]
    /\ last_call' = Call("update_bay_health", bay_id, FALSE,
                         processor_status.is_connected, NoStatus, NoResult)
    /\ UNCHANGED <<plock, pview, produced, applied, upc, ubay, statuses,
                   hlock, hpc, system_health>>
    /\ UNCHANGED <<bays, fed, writer, now>>
    /\ AppOnly

\* get_bay_health, lines 119-122: bay_healths.get(bay_id) under the lock
get_bay_health(bay_id) ==
    /\ hlock = "free"
    /\ last_call' = Call("get_bay_health", bay_id, FALSE, FALSE, NoStatus,
                         Get(bay_healths, bay_id, None))
    /\ UNCHANGED <<plock, pview, produced, applied, upc, ubay, statuses,
                   hlock, hpc, bay_healths, system_health>>
    /\ UNCHANGED <<bays, fed, writer, now>>
    /\ AppOnly

\* _get_health_alerts, lines 161-202, called by itself: it takes no lock
GetHealthAlerts ==
    /\ last_call' = Call("_get_health_alerts", 0, FALSE, FALSE, NoStatus,
                         _get_health_alerts(bay_healths))
    /\ UNCHANGED <<plock, pview, produced, applied, upc, ubay, statuses,
                   hlock, hpc, bay_healths, system_health>>
    /\ UNCHANGED <<bays, fed, writer, now>>
    /\ AppOnly

\* the health monitor and the threads that feed and read it
HealthNext ==
    \/ Tick
    \/ \E b \in BayIds, status \in FedStatuses : update_bay_health(b, status)
    \/ \E t \in HealthReaders : get_health_summary(t)
    \/ \E t \in HealthReaders : get_system_health(t)

HealthSpec == AppInit /\ [][HealthNext]_vars

\* the update_bay_statuses thread beside the threads that read the health
\* monitor (the monitor loop, line 209, and the HTTP handlers)
WatchedNext ==
    \/ \E b \in BayIds : WorkerConnects(b)
    \/ \E b \in BayIds : WorkerDisconnects(b)
    \/ SupervisorStep
    \/ \E t \in HealthReaders : get_health_summary(t)
    \/ \E t \in HealthReaders : get_system_health(t)

WatchedSpec == AppInit /\ [][WatchedNext]_vars

\* every thread keeps being scheduled: the update_bay_statuses thread, and
\* a reader inside get_health_summary goes on to get_system_health
FairWatchedSpec ==
    /\ WatchedSpec
    /\ WF_vars(SupervisorStep)
    /\ \A t \in HealthReaders :
         WF_vars(hpc[t] = "get_health_summary" /\ get_system_health(t))

\* the health monitor beside what it watches: the workers connect and
\* disconnect, the tracker is told, and the monitor is fed and read
MonitorNext ==
    \/ Tick
    \/ \E b \in BayIds : WorkerConnects(b)
    \/ \E b \in BayIds : WorkerDisconnects(b)
    \/ \E b \in BayIds, c \in BOOLEAN : update_bay_status(b, FALSE, c, None, 0)
    \/ \E b \in BayIds, status \in FedStatuses : update_bay_health(b, status)
    \/ \E b \in RequestIds : get_bay_health(b)
    \/ \E t \in HealthReaders : get_health_summary(t)
    \/ \E t \in HealthReaders : get_system_health(t)

MonitorSpec == Init /\ [][MonitorNext]_vars

\* how long the monitor has been running when it is first fed: not at all,
\* and around the 300 seconds at which one reconnect costs 10 % of uptime
AlertTimes == {0, 290, 300}

\* the statuses whose alerts are asked for: connected or not, at each
\* quality level, with a reconnect count at and around the limit of line
\* 184, connected before or never, and the fallback status
AlertStatuses ==
    { get_status([ InitView EXCEPT !.is_connected = c,
                                   !.quality_level = q,
                                   !.total_reconnects = r,
                                   !.last_successful_connection = l ]) :
        c \in BOOLEAN, q \in {"high", "medium", "low"}, r \in {0, 1, 10, 11},
        l \in {None, Some(0)} }
        \cup { FallbackStatus }

\* the health monitor alone, constructed AlertTimes ago and not fed yet
AlertInit ==
    /\ bay_count = AppBays
    /\ now \in AlertTimes
    /\ bays = [ b \in 1..bay_count |-> InitBay(0) ]
    /\ lock = "free"
    /\ pc = "idle"
    /\ acc = <<>>
    /\ last_call = [ Call("init", 0, FALSE, FALSE, AVAILABLE, NoResult)
                     EXCEPT !.time = 0 ]
    /\ fed = [ b \in 1..bay_count |-> NoneFed ]
    /\ writer = [ b \in 1..bay_count |-> "__init__" ]
    /\ StreamInit
    /\ has_sigalrm = FALSE
    /\ AppIdle
    /\ ConfigLoaded

AlertNext ==
    \/ Tick
    \/ \E b \in BayIds, status \in AlertStatuses : update_bay_health(b, status)
    \/ GetHealthAlerts

AlertSpec == AlertInit /\ [][AlertNext]_vars

(***************************************************************************)
(* The start of the program: the import of config.py, which builds the     *)
(* configuration (line 132), then initialize_system (simple_app.py).       *)
(***************************************************************************)

\* what the environment can hold for a threshold: nothing, the empty
\* string, a word, and numbers from -1 to 12
ThresholdSettings ==
    { None, Some(<<>>), Some(<<"a", "b", "c">>), Some(<<"-", "1">>), Some(<<"0">>),
      Some(<<"1">>), Some(<<"3">>), Some(<<"1", "2">>) }

\* what the environment can hold for the address of a camera
UrlSettings == { None, Some(<<>>), Some(<<"r", "t", "s", "p", "2">>) }

\* the process before config.py is imported; the tracker's variables hold
\* what BayTracker.__init__ will give them
ConfigInit ==
    /\ bay_count = BayCount
    /\ now = 0
    /\ bays = [ b \in 1..bay_count |-> InitBay(0) ]
    /\ lock = "free"
    /\ pc = "idle"
    /\ acc = <<>>
    /\ last_call = Call("init", 0, FALSE, FALSE, AVAILABLE, NoResult)
    /\ fed = [ b \in 1..bay_count |-> NoneFed ]
    /\ writer = [ b \in 1..bay_count |-> "__init__" ]
    /\ StreamInit
    /\ has_sigalrm = FALSE
    /\ AppIdle
    /\ \E fast \in ThresholdSettings, slow \in ThresholdSettings, url \in UrlSettings :
         env = [ STATUS_FAST_THRESHOLD |-> fast, STATUS_SLOW_THRESHOLD |-> slow,
                 RTSP_URL_1 |-> url ]
    /\ config = DefaultConfig(NoEnv)
    /\ thresholds = None
    /\ boot = "import"

ConfigOnly ==
    /\ UNCHANGED <<bay_count, bays, lock, pc, acc, now, last_call, fed, writer>>
    /\ UNCHANGED <<streamVars, appVars>>

\* SystemConfig.__post_init__ and _apply_env_overrides, lines 81-129, run
\* by line 132 when config.py is imported: a threshold that is given
\* replaces the default, whatever its value; a ValueError of int ends the
\* process
_apply_env_overrides ==
    /\ boot = "import"
    /\ LET fast == env.STATUS_FAST_THRESHOLD
           slow == env.STATUS_SLOW_THRESHOLD
           defaults == DefaultConfig(env)
       IN  IF \/ Given(fast) /\ int(fast[1]) = None
              \/ Given(slow) /\ int(slow[1]) = None
           THEN /\ boot' = "ValueError"
                /\ UNCHANGED config
           ELSE /\ boot' = "configured"
                /\ config' =
                     [ defaults EXCEPT
                         !.available_to_inuse_threshold =
                             IF Given(fast) THEN int(fast[1])[1] ELSE @,
                         !.inuse_to_available_threshold =
                             IF Given(slow) THEN int(slow[1])[1] ELSE @ ]
    /\ UNCHANGED <<env, thresholds>>
    /\ ConfigOnly

\* initialize_system, lines 53-96, with BayTracker.__init__, lines 31-41,
\* which copies the thresholds, and the processors of lines 72-79; then
\* lines 416-447 start the threads
initialize_system ==
    /\ boot = "configured"
    /\ thresholds' =
         Some([ available_to_inuse_threshold |-> config.available_to_inuse_threshold,
                inuse_to_available_threshold |-> config.inuse_to_available_threshold ])
    /\ boot' = "running"
    /\ UNCHANGED <<env, config>>
    /\ ConfigOnly

ConfigNext ==
    \/ _apply_env_overrides
    \/ initialize_system

ConfigSpec == ConfigInit /\ [][ConfigNext]_vars

(***************************************************************************)
(* Properties.                                                             *)
(***************************************************************************)

\* the most recent call was update_bay_status on bay b
Updated(b) == last_call.op = "update_bay_status" /\ last_call.bay = b

\* ... and it reported the stream connected with no frame older than
\* frame_timeout on record when it ran
HealthyUpdated(b) ==
    /\ Updated(b)
    /\ last_call.flag
    /\ \/ bays[b].last_frame_time = None
       \/ last_call.time - bays[b].last_frame_time[1] <= frame_timeout

\* ... and when it ran, the last false -> true change of is_connected was
\* at least connection_grace_period old
GraceOver(b) ==
    /\ bays[b].last_connection_time # None
    /\ last_call.time - bays[b].last_connection_time[1] >= connection_grace_period

\* C1: after an update_bay_status call with is_connected=false the bay's
\* status is CONNECTION_ERROR, whatever it was before
C1_DisconnectedUpdateIsConnectionError ==
    \A b \in BayIds :
        Updated(b) /\ ~last_call.flag => bays[b].status = CONNECTION_ERROR

\* a bay that was OUT_OF_SERVICE with detections counted got such an update
C1_Witness ==
    \E b \in BayIds :
        /\ Updated(b) /\ ~last_call.flag
        /\ last_call.prev_status = OUT_OF_SERVICE
        /\ bays[b].consecutive_detections > 0
        /\ bays[b].status = CONNECTION_ERROR

\* C2 as stated: in every reachable state, a bay whose recorded is_connected
\* is false has status CONNECTION_ERROR
C2_DisconnectedIsConnectionError ==
    \A b \in BayIds :
        ~bays[b].is_connected => bays[b].status = CONNECTION_ERROR

\* C2 amended: a bay whose recorded is_connected is false has status
\* CONNECTION_ERROR once update_bay_status was the last call to write its
\* record; a bay last written by __init__ or set_bay_out_of_service may be
\* AVAILABLE or OUT_OF_SERVICE with is_connected false
C2_DisconnectedIsConnectionErrorAfterUpdate ==
    \A b \in BayIds :
        /\ ~bays[b].is_connected /\ writer[b] = "update_bay_status"
              => bays[b].status = CONNECTION_ERROR
        /\ ~bays[b].is_connected /\ writer[b] # "update_bay_status"
              => bays[b].status \in {AVAILABLE, OUT_OF_SERVICE}

\* a disconnected bay, last written by an update some time ago
C2_Witness ==
    \E b \in BayIds :
        /\ ~bays[b].is_connected
        /\ writer[b] = "update_bay_status"
        /\ bays[b].status = CONNECTION_ERROR
        /\ last_call.op = "get_bay_status"
        /\ now > last_call.time

\* C3: an AVAILABLE bay fed detected=true over a healthy connection outside
\* the grace period is IN_USE after the update that makes
\* available_to_inuse_threshold such updates in a row, and still AVAILABLE
\* after every earlier one of the row
C3_FastPath ==
    \A b \in BayIds :
        /\ HealthyUpdated(b)
        /\ GraceOver(b)
        /\ last_call.vehicle_detected
        /\ last_call.prev_status = AVAILABLE
        => /\ fed[b].detected >= 1
           /\ bays[b].status =
                IF fed[b].detected >= available_to_inuse_threshold
                THEN IN_USE ELSE AVAILABLE

\* the update that completed the row turned an AVAILABLE bay IN_USE
C3_Witness ==
    \E b \in BayIds :
        /\ HealthyUpdated(b) /\ GraceOver(b) /\ last_call.vehicle_detected
        /\ last_call.prev_status = AVAILABLE
        /\ fed[b].detected = available_to_inuse_threshold
        /\ bays[b].status = IN_USE

\* C4: an IN_USE bay fed over a healthy connection is AVAILABLE after the
\* update that makes inuse_to_available_threshold detected=false updates in
\* a row and IN_USE after any other update; a detected=true starts the row
\* again
C4_SlowPath ==
    \A b \in BayIds :
        /\ HealthyUpdated(b)
        /\ last_call.prev_status = IN_USE
        => /\ last_call.vehicle_detected => fed[b].empty = 0
           /\ ~last_call.vehicle_detected => fed[b].empty >= 1
           /\ bays[b].status =
                IF fed[b].empty >= inuse_to_available_threshold
                THEN AVAILABLE ELSE IN_USE

\* the update that completed the row turned an IN_USE bay AVAILABLE
C4_Witness ==
    \E b \in BayIds :
        /\ HealthyUpdated(b)
        /\ last_call.prev_status = IN_USE
        /\ fed[b].empty = inuse_to_available_threshold
        /\ bays[b].status = AVAILABLE

\* C5: an update applied less than connection_grace_period after the last
\* observed false -> true change of is_connected leaves both detection
\* counters as they were and does not turn an AVAILABLE bay IN_USE
C5_GraceFreeze ==
    [][ \A b \in BayIds :
          /\ now' = now
          /\ last_call'.op = "update_bay_status"
          /\ last_call'.bay = b
          /\ bays'[b].last_connection_time # None
          /\ now - bays'[b].last_connection_time[1] < connection_grace_period
          => /\ bays'[b].consecutive_detections = bays[b].consecutive_detections
             /\ bays'[b].consecutive_non_detections =
                   bays[b].consecutive_non_detections
             /\ ~(bays[b].status = AVAILABLE /\ bays'[b].status = IN_USE)
      ]_vars

\* an AVAILABLE bay with a fresh frame was fed detected=true inside the
\* grace period
C5_Witness ==
    \E b \in BayIds :
        /\ HealthyUpdated(b)
        /\ last_call.vehicle_detected
        /\ ~GraceOver(b)
        /\ bays[b].last_frame_time = Some(last_call.time)
        /\ last_call.prev_status = AVAILABLE
        /\ bays[b].status = AVAILABLE

\* C6 as stated: an update with is_connected=false turns an AVAILABLE bay
\* CONNECTION_ERROR; the healthy update that finds the bay CONNECTION_ERROR
\* with the grace period over turns it AVAILABLE and leaves both detection
\* counters 0
C6_RecoveryLeavesCountersZero ==
    \A b \in BayIds :
        /\ Updated(b) /\ ~last_call.flag /\ last_call.prev_status = AVAILABLE
              => bays[b].status = CONNECTION_ERROR
        /\ HealthyUpdated(b) /\ GraceOver(b)
           /\ last_call.prev_status = CONNECTION_ERROR
              => /\ bays[b].status = AVAILABLE
                 /\ bays[b].consecutive_detections = 0
                 /\ bays[b].consecutive_non_detections = 0

\* C6 amended: ... turns it AVAILABLE with the counters reset and the
\* sample of that same update counted: consecutive_detections is 1 and
\* consecutive_non_detections 0 when it reported a vehicle, 0 and 1 when not
C6_RecoveryCountsItsSample ==
    \A b \in BayIds :
        /\ Updated(b) /\ ~last_call.flag /\ last_call.prev_status = AVAILABLE
              => bays[b].status = CONNECTION_ERROR
        /\ HealthyUpdated(b) /\ GraceOver(b)
           /\ last_call.prev_status = CONNECTION_ERROR
              => /\ bays[b].status = AVAILABLE
                 /\ ~bays[b].connection_recovery_pending
                 /\ bays[b].consecutive_detections =
                       IF last_call.vehicle_detected THEN 1 ELSE 0
                 /\ bays[b].consecutive_non_detections =
                       IF last_call.vehicle_detected THEN 0 ELSE 1

\* the update that ended the grace period of a reconnected bay
C6_Witness ==
    \E b \in BayIds :
        /\ HealthyUpdated(b) /\ GraceOver(b)
        /\ last_call.prev_status = CONNECTION_ERROR
        /\ bays[b].last_disconnection_time # None
        /\ bays[b].last_connection_time[1] > bays[b].last_disconnection_time[1]
        /\ bays[b].status = AVAILABLE

\* C7: no update_bay_status call changes a status that is OUT_OF_SERVICE
C7_OutOfServiceSurvivesUpdates ==
    \A b \in BayIds :
        Updated(b) /\ last_call.prev_status = OUT_OF_SERVICE
            => bays[b].status = OUT_OF_SERVICE

\* C8: set_bay_out_of_service(bay, True) leaves the bay OUT_OF_SERVICE, and
\* an update over a healthy connection leaves an OUT_OF_SERVICE bay so
C8_OutOfServiceSurvivesDetections ==
    \A b \in BayIds :
        /\ last_call.op = "set_bay_out_of_service" /\ last_call.bay = b
           /\ last_call.flag
              => bays[b].status = OUT_OF_SERVICE
        /\ HealthyUpdated(b) /\ last_call.prev_status = OUT_OF_SERVICE
              => bays[b].status = OUT_OF_SERVICE

\* an OUT_OF_SERVICE bay has been fed the detections that would turn an
\* AVAILABLE one IN_USE
C8_Witness ==
    \E b \in BayIds :
        /\ HealthyUpdated(b) /\ GraceOver(b)
        /\ last_call.prev_status = OUT_OF_SERVICE
        /\ last_call.vehicle_detected
        /\ fed[b].detected >= available_to_inuse_threshold
        /\ bays[b].status = OUT_OF_SERVICE

\* C9: while the worker runs, every reconnect() entered after a failed
\* connect or a failed frame read is followed by a connect attempt
C9_RetriedIndefinitely ==
    \A w \in Workers :
        (wpc[w] = "reconnect" /\ sp.is_running)
            ~> (wpc[w] = "connect" \/ ~sp.is_running)

\* C10: get_all_bay_statuses never blocks forever: the handler inside it is
\* never about to take the tracker lock while holding that lock itself
C10_BulkReadNeverBlocks ==
    ~(pc = "get_all_bay_statuses" /\ lock = "http")

\* C11: get_health_summary never blocks forever: no thread inside it is
\* about to take the health monitor's lock while holding that lock itself
C11_HealthSummaryNeverBlocks ==
    \A t \in HealthReaders :
        ~(hpc[t] = "get_health_summary" /\ hlock = t)

\* C12: a poll of one bay in the for loop of update_bay_statuses always
\* comes to an end, whatever that bay's worker does, so that the loop goes
\* on to the bays after it and to the next tick
C12_StalledPollDoesNotBlock ==
    \A b \in 1..AppBays :
        (upc = "collect" /\ ubay = b) ~> ~(upc = "collect" /\ ubay = b)

\* C13: a bay whose poll ended with the fallback status in this tick has
\* that status applied: its tracker status is CONNECTION_ERROR, and once the
\* tick is over the health monitor has the bay as disconnected
C13_FallbackIsApplied ==
    \A b \in BayIds :
        statuses[b] = Some(FallbackStatus)
            => /\ bays[b].status = CONNECTION_ERROR
               /\ upc = "sleep"
                     => /\ bay_healths[b] # None
                        /\ ~bay_healths[b][1].is_connected

\* C14: the classifier results of a bay reach its tracker one by one in
\* the order they were produced: the results applied so far are the
\* first, the second, ... with none left out and none applied twice
C14_AppliedInOrderOnce ==
    \A b \in BayIds :
        \A i \in 1..Len(applied[b]) : applied[b][i] = i
\* C15: whatever get_status() returns to another thread is a point-in-time
\* copy with no connect or read half applied: a connected snapshot carries
\* no error and no failure count of an earlier failed connect, and a
\* snapshot that counts a frame has the time of a frame.  get_status takes self.lock (line 340), which connect and
\* get_frame never take, so it can run in every state of the processor.
C15_SnapshotIsPointInTime ==
    LET snapshot == get_status(sp)
    IN  /\ snapshot.is_connected
           => /\ snapshot.last_error = "none"
              /\ snapshot.consecutive_failures = 0
        /\ snapshot.frames_processed > 0 => snapshot.last_frame_time # None

\* C16: once stop() has returned and the worker has ended, the capture is
\* released (cap is None) and is_connected is false, and no capture is open
\* after stop() released it.
C16_StopReleasesHandle ==
    mpc = "stopped"
    => /\ sp.cap # "open"
       /\ (\A w \in Workers : wpc[w] \in {"none", "done"})
          => (sp.cap = "none" /\ ~sp.is_connected)

\* C17: the backoff delay before the jitter never decreases as
\* reconnect_attempts grows and never exceeds max_reconnect_interval, and a
\* reconnect that follows a successful connect with no failed connect in
\* between sleeps no longer than the schedule's first delay (the base
\* interval is the least the claim allows for it).
C17_BackoffSchedule ==
    /\ \A a \in 0..(AttemptsCap - 1) :
         /\ _calculate_backoff_delay(a) <= _calculate_backoff_delay(a + 1)
         /\ _calculate_backoff_delay(a + 1) <= max_reconnect_interval
    /\ \A w \in Workers :
         ( /\ wpc[w] = "connect"
           /\ sp.last_successful_connection # None
           /\ sp.last_error = "none" )
         => delay[w] <= _calculate_backoff_delay(1)

\* C18: get_bay_status is read-only and idempotent: a call leaves every
\* bay, and what the bays have been fed, as they were, and a call that
\* follows a get_bay_status of the same bay with no other call in between
\* returns what that one returned, however much time has passed.
C18_ReadsAreIdempotent ==
    [][ /\ last_call'.op = "get_bay_status"
        /\ last_call' # last_call
        => /\ bays' = bays
           /\ fed' = fed
           /\ writer' = writer
           /\ ( /\ last_call.op = "get_bay_status"
                /\ last_call.bay = last_call'.bay )
              => last_call'.result = last_call.result
      ]_vars

\* a bay that was updated, then read twice in a row, the second time later
\* than the update
C18_Witness ==
    \E b \in BayIds :
        /\ last_call.op = "get_bay_status"
        /\ last_call.bay = b
        /\ last_call.repeat
        /\ last_call.result = <<StatusDict(b, bays[b])>>
        /\ writer[b] = "update_bay_status"
        /\ bays[b].status = IN_USE
        /\ last_call.time > bays[b].last_updated

\* C19: an update_bay_status, set_bay_out_of_service, force_bay_available or
\* reset_background call that names a bay id outside the registry is
\* rejected and leaves every bay as it was.
C19_UnknownBayRejected ==
    [][ /\ last_call' # last_call
        /\ last_call'.op \in {"update_bay_status", "set_bay_out_of_service",
                              "force_bay_available", "reset_background"}
        /\ last_call'.bay \notin DOMAIN bays
        => /\ last_call'.result = Rejected
           /\ bays' = bays
           /\ fed' = fed
           /\ writer' = writer
      ]_vars

\* a bay in use, and a force_bay_available request for a bay id beyond the
\* last one that was rejected
C19_Witness ==
    /\ last_call.op = "force_bay_available"
    /\ last_call.bay = bay_count + 1
    /\ last_call.result = Rejected
    /\ \E b \in BayIds : bays[b].status = IN_USE

\* C20: a configuration fault is rejected at startup: the program never
\* runs with a tracker whose available_to_inuse_threshold or
\* inuse_to_available_threshold is 0 or less, nor with an empty stream
\* address.
C20_InvalidConfigRejected ==
    boot = "running"
    => /\ thresholds[1].available_to_inuse_threshold >= 1
       /\ thresholds[1].inuse_to_available_threshold >= 1
       /\ config.rtsp_url # <<>>

\* C21: the alert list is a function of the current per-bay samples alone:
\* for every recorded bay it holds one high alert iff the bay is not
\* connected, one medium alert about quality iff quality_level is medium or
\* low, one about reconnects iff total_reconnects > 10, one about uptime iff
\* uptime_percentage < 90, and it holds nothing else, whatever an earlier
\* list held.
C21_AlertsFollowSamples ==
    last_call.op = "_get_health_alerts"
    => LET alerts == last_call.result
           Of(b, wording) ==
               { i \in 1..Len(alerts) :
                   alerts[i].bay_id = b /\ alerts[i].message[1] = wording }
           One(b, wording, wanted) ==
               Cardinality(Of(b, wording)) = IF wanted THEN 1 ELSE 0
       IN  /\ \A b \in BayIds :
                IF bay_healths[b] = None
                THEN \A i \in 1..Len(alerts) : alerts[i].bay_id # b
                ELSE LET health == bay_healths[b][1]
                     IN  /\ One(b, "is disconnected", ~health.is_connected)
                         /\ One(b, "running at quality",
                                health.quality_level \in {"medium", "low"})
                         /\ One(b, "has reconnected", health.total_reconnects > 10)
                         /\ One(b, "uptime is low", health.uptime_percentage < 90)
           /\ \A i \in 1..Len(alerts) :
                /\ alerts[i].bay_id \in BayIds
                /\ alerts[i].message[1] \in
                     {"is disconnected", "running at quality",
                      "has reconnected", "uptime is low"}
                /\ alerts[i].severity =
                     IF alerts[i].message[1] = "is disconnected"
                     THEN "high" ELSE "medium"

\* a list asked for with bay 1 connected at high quality, reconnected once
\* in 300 seconds, which is 90 % uptime and so no alert, and bay 2
\* disconnected: every alert of the list is about bay 2
C21_Witness ==
    /\ last_call.op = "_get_health_alerts"
    /\ bay_healths[1] # None /\ bay_healths[2] # None
    /\ bay_healths[1][1].is_connected
    /\ bay_healths[1][1].quality_level = "high"
    /\ bay_healths[1][1].total_reconnects = 1
    /\ bay_healths[1][1].uptime_percentage = 90
    /\ ~bay_healths[2][1].is_connected
    /\ Len(last_call.result) >= 1
    /\ \A i \in 1..Len(last_call.result) : last_call.result[i].bay_id = 2

\* C22: the health monitor only reads and summarizes: a step of
\* update_bay_health, get_bay_health, get_system_health or
\* get_health_summary leaves every bay record of the tracker and the
\* connection state of every stream processor as they were.
C22_MonitorLeavesStateAlone ==
    [][ \/ /\ last_call' # last_call
           /\ last_call'.op \in {"update_bay_health", "get_bay_health"}
        \/ bay_healths' # bay_healths
        \/ system_health' # system_health
        \/ hlock' # hlock
        \/ hpc' # hpc
        => /\ bays' = bays
           /\ pview' = pview
           /\ plock' = plock
           /\ sp' = sp
      ]_vars

\* bay 1 in CONNECTION_ERROR, its worker connected again, and the monitor
\* fed, summarized and asked for the health of bay 1
C22_Witness ==
    /\ bays[1].status = CONNECTION_ERROR
    /\ pview[1].is_connected
    /\ bay_healths[1] # None
    /\ system_health.last_health_check > 0
    /\ \E t \in HealthReaders : hpc[t] = "get_health_summary"
    /\ last_call.op = "get_bay_health"
    /\ last_call.bay = 1
    /\ last_call.result = bay_healths[1]

\* C23: an update that reports the stream disconnected, or after which the
\* stored frame time is older than frame_timeout, leaves the bay in
\* CONNECTION_ERROR and both detection counters as they were.
C23_FaultBranchKeepsCounters ==
    [][ \A b \in BayIds :
          /\ now' = now
          /\ last_call'.op = "update_bay_status"
          /\ last_call'.bay = b
          /\ \/ ~last_call'.flag
             \/ FrameTimedOut(bays'[b], now)
          => /\ bays'[b].status = CONNECTION_ERROR
             /\ bays'[b].consecutive_detections = bays[b].consecutive_detections
             /\ bays'[b].consecutive_non_detections =
                   bays[b].consecutive_non_detections
      ]_vars

\* a bay that had counted a detection, after a connected update whose frame
\* is older than frame_timeout
C23_Witness ==
    \E b \in BayIds :
        /\ Updated(b)
        /\ last_call.time = now
        /\ last_call.flag
        /\ FrameTimedOut(bays[b], now)
        /\ last_call.prev_status = AVAILABLE
        /\ bays[b].status = CONNECTION_ERROR
        /\ bays[b].consecutive_detections >= 1

\* C24: an update that reports the stream connected when the stored value
\* was false sets last_connection_time to now and
\* connection_recovery_pending; one that reports it disconnected when the
\* stored value was true sets last_disconnection_time to now and clears
\* connection_recovery_pending; one that repeats the stored value changes
\* neither time.
C24_ConnectionTracking ==
    [][ \A b \in BayIds :
          /\ now' = now
          /\ last_call'.op = "update_bay_status"
          /\ last_call'.bay = b
          => /\ last_call'.flag /\ ~bays[b].is_connected
                => /\ bays'[b].last_connection_time = Some(now)
                   /\ bays'[b].connection_recovery_pending
                   /\ bays'[b].last_disconnection_time = bays[b].last_disconnection_time
             /\ ~last_call'.flag /\ bays[b].is_connected
                => /\ bays'[b].last_disconnection_time = Some(now)
                   /\ ~bays'[b].connection_recovery_pending
                   /\ bays'[b].last_connection_time = bays[b].last_connection_time
             /\ last_call'.flag = bays[b].is_connected
                => /\ bays'[b].last_connection_time = bays[b].last_connection_time
                   /\ bays'[b].last_disconnection_time =
                         bays[b].last_disconnection_time
             /\ bays'[b].is_connected = last_call'.flag
      ]_vars

\* a bay that was connected, lost the stream and has just been reported
\* connected again, later than it was first connected
C24_Witness ==
    \E b \in BayIds :
        /\ Updated(b)
        /\ last_call.flag
        /\ now > 0
        /\ bays[b].last_connection_time = Some(now)
        /\ bays[b].connection_recovery_pending
        /\ bays[b].last_disconnection_time # None
        /\ bays[b].last_disconnection_time[1] < now

\* C25: update_bay_status changes the status only from anything to
\* CONNECTION_ERROR (in the fault branch), from CONNECTION_ERROR to
\* AVAILABLE (once connection_grace_period has passed since the stream came
\* back), from AVAILABLE to IN_USE and from IN_USE to AVAILABLE (when the
\* counter has reached its threshold); so IN_USE is entered from AVAILABLE
\* only and the counters change nothing while the status is OUT_OF_SERVICE
\* or CONNECTION_ERROR.
C25_StatusChangesOfUpdate ==
    [][ \A b \in BayIds :
          /\ now' = now
          /\ last_call'.op = "update_bay_status"
          /\ last_call'.bay = b
          /\ bays'[b].status # bays[b].status
          => \/ /\ bays'[b].status = CONNECTION_ERROR
                /\ ~last_call'.flag \/ FrameTimedOut(bays'[b], now)
             \/ /\ bays[b].status = CONNECTION_ERROR
                /\ bays'[b].status = AVAILABLE
                /\ last_call'.flag
                /\ bays'[b].last_connection_time # None
                /\ now - bays'[b].last_connection_time[1] >= connection_grace_period
             \/ /\ bays[b].status = AVAILABLE
                /\ bays'[b].status = IN_USE
                /\ last_call'.vehicle_detected
                /\ bays'[b].consecutive_detections >= available_to_inuse_threshold
             \/ /\ bays[b].status = IN_USE
                /\ bays'[b].status = AVAILABLE
                /\ ~last_call'.vehicle_detected
                /\ bays'[b].consecutive_non_detections >= inuse_to_available_threshold
      ]_vars

\* a bay in CONNECTION_ERROR whose update, with a vehicle detected and the
\* grace period over, has made it AVAILABLE and not IN_USE
C25_Witness ==
    \E b \in BayIds :
        /\ HealthyUpdated(b)
        /\ last_call.time = now
        /\ last_call.vehicle_detected
        /\ last_call.prev_status = CONNECTION_ERROR
        /\ bays[b].status = AVAILABLE
        /\ bays[b].consecutive_detections = 1

\* C26: an update_bay_status or set_bay_out_of_service call that changes
\* the status of a bay sets the bay's last_updated to the time of the call.
C26_StatusChangeStampsTime ==
    [][ \A b \in BayIds :
          /\ now' = now
          /\ last_call'.op \in {"update_bay_status", "set_bay_out_of_service"}
          /\ last_call'.bay = b
          /\ bays'[b].status # bays[b].status
          => bays'[b].last_updated = now
      ]_vars

\* a bay that an update has just turned IN_USE, later than it was
\* constructed
C26_Witness ==
    \E b \in BayIds :
        /\ Updated(b)
        /\ last_call.time = now
        /\ now > 0
        /\ last_call.prev_status = AVAILABLE
        /\ bays[b].status = IN_USE
        /\ bays[b].last_updated = now

\* C27: set_bay_out_of_service(bay, False) leaves the bay AVAILABLE with
\* both detection counters 0 whatever its status was, and
\* set_bay_out_of_service(bay, True) leaves it OUT_OF_SERVICE with the
\* counters as they were.
C27_OperatorOverride ==
    [][ \A b \in BayIds :
          /\ now' = now
          /\ last_call'.op = "set_bay_out_of_service"
          /\ last_call'.bay = b
          => IF last_call'.flag
             THEN /\ bays'[b].status = OUT_OF_SERVICE
                  /\ bays'[b].consecutive_detections = bays[b].consecutive_detections
                  /\ bays'[b].consecutive_non_detections =
                        bays[b].consecutive_non_detections
             ELSE /\ bays'[b].status = AVAILABLE
                  /\ bays'[b].consecutive_detections = 0
                  /\ bays'[b].consecutive_non_detections = 0
      ]_vars

\* a bay that was IN_USE, so had counted, and has just been put back in
\* service
C27_Witness ==
    \E b \in BayIds :
        /\ last_call.op = "set_bay_out_of_service"
        /\ last_call.bay = b
        /\ ~last_call.flag
        /\ last_call.prev_status = IN_USE
        /\ bays[b].status = AVAILABLE
        /\ bays[b].consecutive_detections = 0
        /\ bays[b].consecutive_non_detections = 0

\* the steps in which connect is called: by start, and by reconnect in
\* worker w
StartConnects ==
    /\ mpc \in {"idle", "stopped"}
    /\ ~sp.is_running
    /\ wpc' = wpc
    /\ camera' = camera
    /\ (sp' # sp \/ mpc' # mpc)

ReconnectConnects(w) == wpc[w] = "connect" /\ wpc'[w] # "connect"

ConnectCalled == StartConnects \/ \E w \in Workers : ReconnectConnects(w)

\* the steps in which a successful connect finishes
ConnectReturnsTrue ==
    \/ mpc = "start" /\ mpc' # "start"
    \/ \E w \in Workers : wpc[w] = "connected" /\ wpc'[w] # "connected"

\* the steps in which reconnect is entered by worker w
ReconnectCalled(w) == wpc[w] = "reconnect" /\ wpc'[w] # "reconnect"

\* C28: a successful connect sets is_connected and clears
\* consecutive_failures and last_error; a failed connect clears
\* is_connected and adds one to consecutive_failures, and the third failure
\* in a row takes the quality one step down (high to medium, medium to low,
\* low stays low) and sets consecutive_failures back to 0.
C28_ConnectOutcome ==
    [][ /\ ConnectCalled /\ camera = "up"
           => /\ sp'.is_connected
              /\ sp'.quality_level = sp.quality_level
        /\ ConnectReturnsTrue
           => /\ sp'.consecutive_failures = 0
              /\ sp'.last_error = "none"
        /\ ConnectCalled /\ camera = "down"
           => /\ ~sp'.is_connected
              /\ IF sp.consecutive_failures = 2
                 THEN /\ sp'.consecutive_failures = 0
                      /\ sp'.quality_level =
                            CASE sp.quality_level = "high" -> "medium"
                              [] sp.quality_level = "medium" -> "low"
                              [] sp.quality_level = "low" -> "low"
                 ELSE /\ sp'.consecutive_failures = sp.consecutive_failures + 1
                      /\ sp'.quality_level = sp.quality_level
      ]_vars

\* the third failure in a row has just taken the quality from medium to low
C28_Witness ==
    /\ sp.quality_level = "low"
    /\ sp.consecutive_failures = 0
    /\ sp.last_error = "error"
    /\ ~sp.is_connected
    /\ sp.last_successful_connection = None

QualityRank(q) ==
    CASE q = "high" -> 2 [] q = "medium" -> 1 [] q = "low" -> 0

\* C29: whatever the processor does (connect, reconnect, read, stop,
\* start), quality_level never moves to a higher level than it had.
C29_QualityOneWay ==
    [][ QualityRank(sp'.quality_level) <= QualityRank(sp.quality_level) ]_vars

\* a stream that connected and delivered frames after its quality had been
\* taken down to low
C29_Witness ==
    /\ sp.quality_level = "low"
    /\ sp.is_connected
    /\ sp.last_error = "none"
    /\ sp.consecutive_failures = 0
    /\ sp.frames_processed > 0

\* C30: every reconnect adds one to reconnect_attempts, a failed connect
\* leaves the count, a successful one sets it back to 0, and a reconnect
\* that finds the count over max_reconnect_attempts returns False without
\* touching the capture.
C30_ReconnectAttempts ==
    [][ \A w \in Workers :
          /\ ReconnectCalled(w)
             => /\ sp.reconnect_attempts < AttemptsCap
                   => sp'.reconnect_attempts = sp.reconnect_attempts + 1
                /\ sp'.reconnect_attempts > max_reconnect_attempts
                   => /\ wpc'[w] = "retry_sleep"
                      /\ sp'.cap = sp.cap
                      /\ sp'.is_connected = sp.is_connected
                      /\ sp'.last_successful_connection =
                            sp.last_successful_connection
                /\ sp'.reconnect_attempts <= max_reconnect_attempts
                   => wpc'[w] = "connect"
          /\ ReconnectConnects(w) /\ camera = "down"
             => sp'.reconnect_attempts = sp.reconnect_attempts
          /\ wpc[w] = "connected" /\ wpc'[w] # "connected"
             => sp'.reconnect_attempts = 0
      ]_vars

\* a worker whose reconnect has just found the attempts used up
C30_Witness ==
    \E w \in Workers :
        /\ wpc[w] = "retry_sleep"
        /\ sp.reconnect_attempts = max_reconnect_attempts + 1
        /\ ~sp.is_connected

\* the steps in which worker w reads a frame, and in which it records one
FrameRead(w) == wpc[w] = "get_frame" /\ wpc'[w] # "get_frame"

FrameKept(w) == wpc[w] = "frame" /\ wpc'[w] # "frame"

\* C31: in the frame loop a failed read of a connected stream adds exactly
\* one to frames_failed and the worker calls reconnect before it reads
\* again; a successful read adds exactly one to frames_processed, sets
\* last_frame_time and leaves frames_failed as it was.
C31_FrameLoopCounts ==
    [][ \A w \in Workers :
          /\ FrameRead(w) /\ wpc'[w] = "frame"
             => /\ sp.frames_processed < FramesCap
                   => sp'.frames_processed = sp.frames_processed + 1
                /\ sp'.frames_failed = sp.frames_failed
          /\ FrameKept(w)
             => /\ sp'.last_frame_time = Some(now)
                /\ sp'.frames_failed = sp.frames_failed
                /\ sp'.frames_processed = sp.frames_processed
          /\ FrameRead(w) /\ wpc'[w] # "frame"
             => /\ wpc'[w] = "reconnect"
                /\ sp'.frames_processed = sp.frames_processed
                /\ sp.is_connected /\ sp.cap # "none" /\ sp.frames_failed < FramesCap
                   => sp'.frames_failed = sp.frames_failed + 1
          /\ wpc[w] = "reconnect"
             => \/ wpc'[w] = "reconnect"
                \/ /\ wpc'[w] \in {"connect", "retry_sleep"}
                   /\ sp.total_reconnects < TotalCap
                      => sp'.total_reconnects = sp.total_reconnects + 1
      ]_vars

\* a worker that has kept a frame, then failed to read the next one from
\* the connected stream, and is about to reconnect
C31_Witness ==
    \E w \in Workers :
        /\ wpc[w] = "reconnect"
        /\ site[w] = 2
        /\ sp.is_connected
        /\ sp.frames_failed = 1
        /\ sp.frames_processed = 1
        /\ sp.last_frame_time # None

\* C32: update_bay_health returns even while another thread computes a
\* health snapshot, so the update_bay_statuses loop that has collected the
\* statuses of a tick always gets past its health updates to the sleep
\* before the next tick.
C32_SupervisorReachesNextTick ==
    (upc = "health") ~> (upc = "sleep")

\* the places of process_stream inside the frame loop, past the test of
\* is_running
InFrameLoop ==
    {"reconnect", "connect", "connected", "retry_sleep", "get_frame", "frame"}

\* C33: at most one worker thread of a stream processor is inside the frame
\* loop of process_stream; the worker of a start is out of it once the
\* processor has been stopped and started again.
C33_OneWorkerInFrameLoop ==
    \A w1, w2 \in Threads :
        wpc[w1] \in InFrameLoop /\ wpc[w2] \in InFrameLoop => w1 = w2

\* C34: when reconnect returns False, because the attempts are used up or
\* because connect failed, is_connected is false.
C34_FalseReconnectIsDisconnected ==
    [][ \A w \in Workers :
          (ReconnectCalled(w) \/ ReconnectConnects(w)) /\ wpc'[w] = "retry_sleep"
          => ~sp'.is_connected
      ]_vars

\* C35: start goes on to set is_running and to start the worker whatever
\* its connect returned, so that a camera that does not answer at the
\* start is tried again by the worker.
C35_StartAlwaysStartsWorker ==
    [][ StartConnects => mpc' = "start" ]_vars

\* C36: in every reachable state of a bay both detection counters are at
\* least 0 and at most one of them is not 0.
C36_OneCounterRuns ==
    \A b \in BayIds :
        /\ bays[b].consecutive_detections >= 0
        /\ bays[b].consecutive_non_detections >= 0
        /\ \/ bays[b].consecutive_detections = 0
           \/ bays[b].consecutive_non_detections = 0

\* a bay that is IN_USE, so had counted detections, then counted samples
\* without a vehicle, and has just counted a detection again
C36_Witness ==
    \E b \in BayIds :
        /\ HealthyUpdated(b)
        /\ last_call.vehicle_detected
        /\ last_call.prev_status = IN_USE
        /\ bays[b].status = IN_USE
        /\ bays[b].consecutive_detections = 1
        /\ bays[b].consecutive_non_detections = 0

\* C37: in every reachable state a bay that is IN_USE has is_connected
\* true on record.
C37_InUseIsConnected ==
    \A b \in BayIds :
        bays[b].status = IN_USE => bays[b].is_connected

\* a bay that lost its connection once, recovered and is IN_USE
C37_Witness ==
    \E b \in BayIds :
        /\ bays[b].status = IN_USE
        /\ bays[b].is_connected
        /\ bays[b].last_disconnection_time # None
        /\ bays[b].last_connection_time # None
        /\ bays[b].last_connection_time[1] > bays[b].last_disconnection_time[1]

\* C38: in every reachable state a bay with connection_recovery_pending
\* true has is_connected true and a last_connection_time.
C38_PendingIsConnected ==
    \A b \in BayIds :
        bays[b].connection_recovery_pending
        => /\ bays[b].is_connected
           /\ bays[b].last_connection_time # None

\* a bay that reconnected after a loss and was updated again inside the
\* grace period
C38_Witness ==
    \E b \in BayIds :
        /\ Updated(b)
        /\ last_call.flag
        /\ bays[b].connection_recovery_pending
        /\ bays[b].last_disconnection_time # None
        /\ bays[b].last_connection_time # None
        /\ last_call.time > bays[b].last_connection_time[1]

\* C39: update_bay_status(b, ...) and set_bay_out_of_service(b, ...) leave
\* the record of every bay other than b as it was.
C39_BaysAreIndependent ==
    [][ \A b \in BayIds :
          /\ now' = now
          /\ last_call'.op \in {"update_bay_status", "set_bay_out_of_service"}
          /\ last_call'.bay = b
          => \A other \in BayIds \ {b} : bays'[other] = bays[other]
      ]_vars

\* bay 1 has just been updated to CONNECTION_ERROR while bay 2, updated
\* earlier, is IN_USE
C39_Witness ==
    /\ bay_count >= 2
    /\ Updated(1)
    /\ ~last_call.flag
    /\ last_call.prev_status # CONNECTION_ERROR
    /\ bays[1].status = CONNECTION_ERROR
    /\ bays[2].status = IN_USE
    /\ bays[2].consecutive_detections >= available_to_inuse_threshold

\* C40: a request for the station list is answered with one station per
\* bay, in which a bay that is CONNECTION_ERROR appears as 'outOfService',
\* every other bay with its own status, and 'connectionError' never.
C40_StationsServed ==
    (pc = "get_all_bay_statuses")
        ~> /\ pc = "idle"
           /\ last_call.op = "get_all_bay_statuses"
           /\ LET stations == Stations(last_call.result)
              IN  /\ Len(stations) = bay_count
                  /\ \A b \in BayIds :
                       /\ stations[b].id = b
                       /\ stations[b].status # "connectionError"
                       /\ stations[b].status =
                            IF bays[b].status = CONNECTION_ERROR
                            THEN "outOfService" ELSE bays[b].status

====
